---- MODULE Spec2Model ----
(***************************************************************************)
(* Model of the alert pipeline of the face-recognition monitor:            *)
(*   core/alert_system.py      AlertSystem (cooldown, screenshot, sound)   *)
(*   core/telegram_manager.py  TelegramManager.send_alert                  *)
(* and of its capture side:                                                *)
(*   core/camera_manager.py    CameraManager (capture workers, frame queue)*)
(* and of its recognition side:                                            *)
(*   core/face_detection.py    FaceDetector (gallery, detection, matching) *)
(*                                                                         *)
(* Strings are sequences of characters; a character is a one-element name  *)
(* ("A", "/", and "U+672A" for a CJK code point).  An Optional value is a  *)
(* sequence of length at most one: <<>> is None, <<x>> is the value x.     *)
(***************************************************************************)
EXTENDS Integers, Sequences, FiniteSets, TLC

VARIABLES
    clock,               \* time.time(), whole seconds
    last_alert_time,     \* AlertSystem.last_alert_time : key -> time
    alert_history,       \* AlertSystem.alert_history
    alert_enabled,       \* AlertSystem.alert_enabled
    screenshot_enabled,  \* AlertSystem.screenshot_enabled
    telegram,            \* TRUE iff AlertSystem.telegram is a TelegramManager
    tg_bot,              \* TelegramManager.bot is set
    tg_last_sent,        \* TelegramManager.last_sent
    failed_log,          \* lines of failed_alerts.log
    tg_sent,             \* texts the Telegram channel has accepted, in order
    tg_calls,            \* the direct send_alert calls made and their outcomes
    files,               \* screenshot files present on disk
    pc,                  \* per caller: position inside trigger_alert
    loc,                 \* per caller: locals of the running trigger_alert
    io,                  \* per caller: I/O performed by its current invocation
    ret,                 \* per caller: outcome of its last invocation
    ncalls,              \* number of trigger_alert invocations made
    shot_in,             \* face_name of a direct _capture_screenshot call
    shot_out,            \* the file it names and the path it returns
    stop_event,          \* CameraManager.stop_event is set
    capture_threads,     \* CameraManager.capture_threads : cam_id -> thread
    frame_queues,        \* CameraManager.frame_queues : cam_id -> Queue object
    queues,              \* contents of every Queue object created so far
    workers,             \* every capture thread created so far
    mgr,                 \* position of the thread calling CameraManager,
                         \* and the threads its running call has logged a
                         \* "did not exit" warning for
    captured,            \* number of frames read from the sources so far
    pub,                 \* per camera: frames put in its queue since the
                         \* last get_frame (or since the queue was created)
    lastget,             \* the last get_frame: its camera, its result and
                         \* the frames put in the queue since the one before
    known_faces,         \* FaceDetector.known_faces
    recognition_threshold, \* FaceDetector.recognition_threshold, in 1/100
    face_dir,            \* the known-faces directory on disk
    loader,              \* position of the thread inside load_known_faces
    rec,                 \* the last recognize_faces call and its result
    det_calls            \* the detect_faces calls made and their results

vars == <<clock, last_alert_time, alert_history, alert_enabled,
          screenshot_enabled, telegram, tg_bot, tg_last_sent, failed_log,
          tg_sent, tg_calls,
          files, pc, loc, io, ret, ncalls, shot_in, shot_out,
          stop_event, capture_threads, frame_queues, queues, workers, mgr,
          captured, pub, lastget,
          known_faces, recognition_threshold, face_dir, loader, rec,
          det_calls>>

alertVars == <<last_alert_time, alert_history, alert_enabled,
               screenshot_enabled>>
tgVars == <<telegram, tg_bot, tg_last_sent, failed_log, tg_sent>>
callVars == <<pc, loc, io, ret, ncalls>>
shotVars == <<shot_in, shot_out>>
camVars == <<stop_event, capture_threads, frame_queues, queues, workers, mgr,
             captured, pub, lastget>>
faceVars == <<known_faces, recognition_threshold, face_dir, loader, rec,
              det_calls>>

----------------------------------------------------------------------------
(* Bounds and program constants *)

MaxCalls == 2
MaxLabelLen == 5

alert_cooldown == 10
min_interval == 5

\* Clock readings the environment can produce (non-decreasing).
TimeValues == {0, 3, 10, 13, 23}

Threads == {1, 2}
SeqThreads == {1}

None == <<>>
Some(x) == <<x>>

----------------------------------------------------------------------------
(* Strings *)

S_Unknown == <<"U", "n", "k", "n", "o", "w", "n">>
S_unknown == <<"u", "n", "k", "n", "o", "w", "n">>
S_weizhi == <<"U+672A", "U+77E5">>
S_moshengren == <<"U+964C", "U+751F", "U+4EBA">>
S_Alice == <<"A", "l", "i", "c", "e">>
S_ABC == <<"A", "/", "B", "*", "C">>

\* The four spellings of "unrecognized".
UnknownAliases == {S_Unknown, S_unknown, S_weizhi, S_moshengren}

\* face_name values passed to trigger_alert
FaceNames == UnknownAliases \cup {S_Alice}

\* (camera_id, face_name) pairs passed to trigger_alert: every name on
\* camera 1, and one name also on camera 2
CallInputs == {<<1, n>> : n \in FaceNames} \cup {<<2, S_Alice>>}

\* str.isalnum() on one character: letters, digits and CJK ideographs.
AlnumChars ==
    {"A", "B", "C", "U", "N", "a", "c", "e", "i", "k", "l", "n", "o", "u", "w",
     "0", "1", "2", "3", "4", "5", "6", "7", "8", "9",
     "U+672A", "U+77E5", "U+964C", "U+751F", "U+4EBA"}

IsAlnum(c) == c \in AlnumChars

DigitChar(d) ==
    CASE d = 0 -> "0" [] d = 1 -> "1" [] d = 2 -> "2" [] d = 3 -> "3"
      [] d = 4 -> "4" [] d = 5 -> "5" [] d = 6 -> "6" [] d = 7 -> "7"
      [] d = 8 -> "8" [] d = 9 -> "9"

\* str(n) for an int n
RECURSIVE NatStr(_)
NatStr(n) == IF n < 10 THEN <<DigitChar(n)>>
             ELSE NatStr(n \div 10) \o <<DigitChar(n % 10)>>

IntStr(n) == IF n < 0 THEN <<"-">> \o NatStr(0 - n) ELSE NatStr(n)

----------------------------------------------------------------------------
(* AlertSystem: pure parts of trigger_alert *)

\* Mutant of Key: the camera id is left out of the key.
Key_NoCamera(camera_id, face_name) == face_name

\* key = f"{camera_id}_{face_name}"
Key(camera_id, face_name) == IntStr(camera_id) \o <<"_">> \o face_name

\* last = self.last_alert_time.get(key, 0)
LookupLast(table, key) == IF key \in DOMAIN table THEN table[key] ELSE 0

\* Mutants of InCooldown: the comparison reversed; the boundary included.
InCooldown_Reversed(now, last) == (now - last) > alert_cooldown
InCooldown_Inclusive(now, last) == (now - last) <= alert_cooldown

\* in_cooldown = (now - last) < self.alert_cooldown
InCooldown(now, last) == (now - last) < alert_cooldown

\* is_unknown = face_name in ("Unknown", "未知", "陌生人")
IsUnknown(face_name) == face_name \in {S_Unknown, S_weizhi, S_moshengren}

\* Mutant of StampTable: the write is missing.
StampTable_Missing(table, key, now) == table

\* Mutant of StampTable: the table is rebuilt with the stamped key alone.
StampTable_Forgets(table, key, now) == [k \in {key} |-> now]

\* self.last_alert_time[key] = now
StampTable(table, key, now) ==
    [k \in (DOMAIN table) \cup {key} |-> IF k = key THEN now ELSE table[k]]

\* sound_path = self.unknown_alert_sound if is_unknown else self.alert_sound
SoundPath(is_unknown) ==
    IF is_unknown THEN "unknown_alert_sound" ELSE "alert_sound"

\* _capture_screenshot, step 1: every spelling of "unrecognized" -> "unknown"
ScreenshotLabel(face_name) ==
    IF face_name = None THEN S_unknown
    ELSE IF face_name[1] \in {S_weizhi, S_unknown, S_Unknown, S_moshengren}
         THEN S_unknown
         ELSE face_name[1]

\* Mutant of SafeName: the "unknown" fallback for an empty name is missing.
SafeName_NoFallback(label) ==
    [i \in 1..Len(label) |-> IF IsAlnum(label[i]) THEN label[i] ELSE "_"]

\* _capture_screenshot, step 2: c if c.isalnum() else "_", "unknown" if empty
SafeName(label) ==
    LET mapped == [i \in 1..Len(label) |->
                      IF IsAlnum(label[i]) THEN label[i] ELSE "_"]
    IN IF mapped = <<>> THEN S_unknown ELSE mapped

\* filepath = screenshot_dir / f"{timestamp_str}_cam{camera_id}_{safe_name}.jpg"
\* (the date-time field is kept as the second it formats)
ScreenshotFile(camera_id, face_name, timestamp) ==
    [dir |-> "screenshot_dir", ts |-> timestamp, cam |-> IntStr(camera_id),
     label |-> SafeName(ScreenshotLabel(face_name))]

\* backup_dir / f"alert_{int(time.time())}.jpg"
BackupFile(t) ==
    [dir |-> "failed_alert_images", ts |-> t, cam |-> <<>>, label |-> <<>>]

\* AlertEvent(...)
MkEvent(l, path, cooldown) ==
    [camera_id |-> l.camera_id, camera_name |-> l.camera_name,
     face_name |-> l.face_name, confidence |-> l.confidence,
     timestamp |-> l.now, age |-> l.face.age, gender |-> l.face.gender,
     screenshot_path |-> path, is_cooldown |-> cooldown]

\* Mutant of CooldownEvent: the cooldown event carries a screenshot path.
CooldownEvent_WithPath(l) ==
    MkEvent(l, Some(ScreenshotFile(l.camera_id, Some(l.face_name), l.now)), TRUE)

\* the event of the cooldown branch: screenshot_path=None, is_cooldown=True
CooldownEvent(l) == MkEvent(l, None, TRUE)

\* the event of a real alert: is_cooldown=False
FiredEvent(l) == MkEvent(l, l.screenshot_path, FALSE)

\* "\n".join(message_lines): the age and gender lines only when truthy
Message(l, t) ==
    [face_name |-> l.face_name,
     age |-> IF l.face.age # None /\ l.face.age # Some(0)
             THEN l.face.age ELSE None,
     gender |-> IF l.face.gender # None /\ l.face.gender # Some("")
                THEN l.face.gender ELSE None,
     camera_name |-> l.camera_name, confidence |-> l.confidence, time |-> t]

----------------------------------------------------------------------------
(* TelegramManager.send_alert as a function of the manager's state, the    *)
(* clock and what the environment does (o):                                *)
(*   o.init   Bot()/get_me():  "ok", "telegram_error" (caught, bot=None),  *)
(*            "error_ctor" (Bot() raises), "error_get_me" (get_me raises   *)
(*            something else, after self.bot was assigned)                 *)
(*   o.send   send_photo/send_message: "ok", "telegram_error", "error"     *)
(*   o.log    open/write of failed_alerts.log: "ok", "error"               *)
(*   o.mkdir  backup_dir.mkdir: "ok", "error"                              *)
(*   o.rename image_path.rename: "ok", "error"                             *)
(***************************************************************************)

TgAllOutcomes ==
    [init : {"ok", "telegram_error", "error_ctor", "error_get_me"},
     send : {"ok", "telegram_error", "error"},
     log : {"ok", "error"},
     mkdir : {"ok", "error"},
     rename : {"ok", "error"}]

\* One representative for the outcomes that differ only in a call that is
\* never made: nothing is sent after a failed start, with no bot the send is
\* an AttributeError, and the fallback stops at its first error.
TgOutcomes ==
    {o \in TgAllOutcomes :
        /\ o.init \in {"error_ctor", "error_get_me"} => o.send = "ok"
        /\ o.init = "telegram_error" => o.send = "error"
        /\ o.send # "error" => o.log = "ok"
        /\ o.log = "error" => o.mkdir = "ok" /\ o.rename = "ok"
        /\ o.mkdir = "error" => o.rename = "ok"}

TgState(bot, last_sent, log, fs, effects, raised) ==
    [bot |-> bot, last_sent |-> last_sent, log |-> log, files |-> fs,
     effects |-> effects, raised |-> raised]

\* except Exception around run_until_complete(_send()): the local fallback.
\* image_path.rename raises when the file is not there or cannot be moved;
\* that error is caught and logged ("move_failed").
SendFallback(bot, last_sent, log, fs, effects, now, message, image_path, o) ==
    IF o.log = "error"
    THEN TgState(bot, last_sent, log, fs, effects, TRUE)
    ELSE LET log1 == Append(log, [time |-> now, message |-> message])
         IN IF image_path = None
            THEN TgState(bot, last_sent, log1, fs, effects, FALSE)
            ELSE IF o.mkdir = "error"
            THEN TgState(bot, last_sent, log1, fs, effects, TRUE)
            ELSE IF o.rename = "ok" /\ image_path[1] \in fs
            THEN TgState(bot, last_sent, log1,
                         (fs \ {image_path[1]}) \cup {BackupFile(now)},
                         Append(effects, "moved"), FALSE)
            ELSE TgState(bot, last_sent, log1, fs,
                         Append(effects, "move_failed"), FALSE)

\* Mutant of SendBody: a call inside the interval goes to the local fallback.
SendBody_LogsDrop(bot, last_sent, log, fs, now, message, image_path, o) ==
    IF now - last_sent < min_interval
    THEN SendFallback(bot, last_sent, log, fs, <<"rate_limited">>,
                      now, message, image_path, o)
    ELSE LET how == IF image_path # None /\ image_path[1] \in fs
                    THEN "send_photo" ELSE "send_message"
         IN IF ~bot \/ o.send = "error"
            THEN SendFallback(bot, last_sent, log, fs, <<how, "failed">>,
                              now, message, image_path, o)
            ELSE IF o.send = "telegram_error"
            THEN TgState(bot, last_sent, log, fs, <<how, "failed">>, FALSE)
            ELSE TgState(bot, now, log, fs, <<how, "delivered">>, FALSE)

\* Mutant of SendBody: last_sent is stamped before the send is tried, so a
\* send the channel refuses stamps it too.
SendBody_StampsFirst(bot, last_sent, log, fs, now, message, image_path, o) ==
    IF now - last_sent < min_interval
    THEN TgState(bot, last_sent, log, fs, <<"rate_limited">>, FALSE)
    ELSE LET how == IF image_path # None /\ image_path[1] \in fs
                    THEN "send_photo" ELSE "send_message"
         IN IF ~bot \/ o.send = "error"
            THEN SendFallback(bot, now, log, fs, <<how, "failed">>,
                              now, message, image_path, o)
            ELSE IF o.send = "telegram_error"
            THEN TgState(bot, now, log, fs, <<how, "failed">>, FALSE)
            ELSE TgState(bot, now, log, fs, <<how, "delivered">>, FALSE)

\* _send()
SendBody(bot, last_sent, log, fs, now, message, image_path, o) ==
    IF now - last_sent < min_interval
    THEN TgState(bot, last_sent, log, fs, <<"rate_limited">>, FALSE)
    ELSE LET how == IF image_path # None /\ image_path[1] \in fs
                    THEN "send_photo" ELSE "send_message"
         IN IF ~bot \/ o.send = "error"
            THEN SendFallback(bot, last_sent, log, fs, <<how, "failed">>,
                              now, message, image_path, o)
            ELSE IF o.send = "telegram_error"
            THEN TgState(bot, last_sent, log, fs, <<how, "failed">>, FALSE)
            ELSE TgState(bot, now, log, fs, <<how, "delivered">>, FALSE)

\* send_alert(message, image_path)
SendAlert(bot, last_sent, log, fs, now, message, image_path, o) ==
    IF bot
    THEN SendBody(bot, last_sent, log, fs, now, message, image_path, o)
    ELSE CASE o.init = "ok" ->
                SendBody(TRUE, last_sent, log, fs, now, message, image_path, o)
           [] o.init = "telegram_error" ->
                SendBody(FALSE, last_sent, log, fs, now, message, image_path, o)
           [] o.init = "error_ctor" ->
                TgState(FALSE, last_sent, log, fs, <<"init_failed">>, FALSE)
           [] o.init = "error_get_me" ->
                TgState(TRUE, last_sent, log, fs, <<"init_failed">>, FALSE)

\* bot.send_photo or bot.send_message returned: the channel took the text
Delivered(r) ==
    r.effects # <<>> /\ r.effects[Len(r.effects)] = "delivered"

----------------------------------------------------------------------------
(* Inputs of trigger_alert *)

CameraName(camera_id) == <<"c", "a", "m">> \o IntStr(camera_id)
Faces == {[age |-> Some(30), gender |-> Some("Male")]}
Confidences == {90}

\* Locals of an invocation that has not started
NoLocals ==
    [camera_id |-> 0, camera_name |-> <<>>, face_name |-> <<>>,
     face |-> [age |-> None, gender |-> None], confidence |-> 0, now |-> 0,
     key |-> <<>>, last |-> 0, in_cooldown |-> FALSE, is_unknown |-> FALSE,
     screenshot_path |-> None, event |-> None]

NoResult == [status |-> "none", event |-> None]
Returned(event) == [status |-> "returned", event |-> Some(event)]
Raised == [status |-> "raised", event |-> None]

AllIdle == \A t \in Threads : pc[t] = "idle"

----------------------------------------------------------------------------
(* CameraManager: configuration, bounds and initial state *)

MaxThreads == 2   \* capture threads created in one run
MaxFrames == 2    \* frames the devices deliver in one run
FileLen == 1      \* frames in the video file of the file-backed camera

queue_maxsize == 1

\* config['cameras']: camera 1 is a device, camera 2 a video file, camera 3
\* is configured but disabled.
cameras ==
    [c \in {1, 2, 3} |->
        [source |-> IF c = 2 THEN "file" ELSE "device",
         enabled |-> c # 3,
         rotate |-> IF c = 1 THEN 90 ELSE 0]]
CamIds == DOMAIN cameras
EnabledCams == <<1, 2>>

\* The frame a worker of camera c publishes for the seq-th frame read:
\* rotated by 90, 180 or 270 degrees when the configuration says so.
Frame(c, seq) ==
    [cam |-> c, seq |-> seq,
     rot |-> IF cameras[c].rotate \in {90, 180, 270}
             THEN cameras[c].rotate ELSE 0]

MgrIdle == [pc |-> "idle", op |-> "none", cam |-> 0, thread |-> 0,
            todo |-> <<>>, warned |-> {}]

\* threading.Thread(target = _capture_frames, args = (cam_id,)).start()
NewWorker(c) ==
    [cam |-> c, pc |-> "open", cap |-> "none", opened |-> FALSE,
     ret |-> FALSE, frame |-> None, pos |-> 0, wq |-> 0]

CamInit ==
    /\ stop_event = FALSE
    /\ capture_threads = <<>>
    /\ frame_queues = <<>>
    /\ queues = <<>>
    /\ workers = <<>>
    /\ mgr = MgrIdle
    /\ captured = 0
    /\ pub = [c \in CamIds |-> <<>>]
    /\ lastget = None

----------------------------------------------------------------------------
(* FaceDetector: data, bounds and initial state.                           *)
(* An embedding is a vector of integers; a similarity s stands for s/100,  *)
(* and so does recognition_threshold (the slider value of the main window).*)

MaxFaces == 2      \* faces detected in one frame
MaxDetects == 2    \* detect_faces calls in one run

\* np.dot of two vectors of the same length
RECURSIVE DotUpTo(_, _, _)
DotUpTo(a, b, n) ==
    IF n = 0 THEN 0 ELSE DotUpTo(a, b, n - 1) + a[n] * b[n]
Dot(a, b) == DotUpTo(a, b, Len(a))

\* np.linalg.norm (the vectors used have whole norms)
Norm(a) == LET d == Dot(a, a) IN CHOOSE n \in 0..d : n * n = d

\* dot(known, face) / (norm(known) * norm(face))
CosineSimilarity(known, face) ==
    (Dot(known, face) * 100) \div (Norm(known) * Norm(face))

\* A file of the known-faces directory: what cv2.imread and model.get make
\* of it ("face": the embedding of its first face, "unreadable": imread
\* returns None, "noface": no face detected, "error": the model raises).
FaceFile(stem, suffix, kind, embedding) ==
    [stem |-> stem, suffix |-> suffix, kind |-> kind, embedding |-> embedding]

F_alice == FaceFile("alice", ".jpg", "face", <<3, 4>>)
F_bob == FaceFile("bob", ".PNG", "face", <<4, 3>>)
F_twin == FaceFile("twin", ".jpeg", "face", <<6, 8>>)
F_notes == FaceFile("notes", ".txt", "unreadable", <<>>)
F_broken == FaceFile("broken", ".jpg", "unreadable", <<>>)
F_wall == FaceFile("wall", ".jpg", "noface", <<>>)
F_crash == FaceFile("crash", ".png", "error", <<>>)

\* States of the known-faces directory, each in the order glob('*.*')
\* yields its files; None is a directory that does not exist.
Dirs ==
    {None, Some(<<>>), Some(<<F_alice>>), Some(<<F_alice, F_bob>>),
     Some(<<F_alice, F_twin>>), Some(<<F_twin, F_alice>>),
     Some(<<F_notes, F_crash, F_bob>>), Some(<<F_broken, F_wall, F_alice>>)}

\* face.embedding of a detected face: None when the model gave none
FaceEmbeddings == {None, Some(<<3, 4>>), Some(<<4, 3>>)}

\* Values update_threshold sets (the slider runs from 50 to 100).
Thresholds == {60, 96}

LoaderIdle ==
    [pc |-> "idle", dir |-> None, todo |-> <<>>, old |-> <<>>,
     status |-> "none", failed |-> FALSE]

\* FaceDetector.__init__: an empty gallery and the configured threshold
FaceInit ==
    /\ known_faces = <<>>
    /\ recognition_threshold = 60
    /\ face_dir = Some(<<F_alice>>)
    /\ loader = LoaderIdle
    /\ rec = None
    /\ det_calls = <<>>

----------------------------------------------------------------------------
(* Initial state: AlertSystem.__init__ and TelegramManager.__init__, *)
(* CameraManager.__init__, FaceDetector.__init__ *)

InitBase ==
    /\ clock = 0
    /\ last_alert_time = <<>>
    /\ alert_history = <<>>
    /\ alert_enabled = TRUE
    /\ screenshot_enabled = TRUE
    /\ tg_bot = FALSE
    /\ tg_last_sent = 0
    /\ failed_log = <<>>
    /\ tg_sent = <<>>
    /\ tg_calls = <<>>
    /\ files = {}
    /\ pc = [t \in Threads |-> "idle"]
    /\ loc = [t \in Threads |-> NoLocals]
    /\ io = [t \in Threads |-> <<>>]
    /\ ret = [t \in Threads |-> NoResult]
    /\ ncalls = 0
    /\ shot_out = None
    /\ CamInit

\* config['telegram']['enabled'] is False (the default): self.telegram is None
Init == InitBase /\ FaceInit /\ telegram = FALSE /\ shot_in = None

\* config['telegram']['enabled'] is True: self.telegram is a TelegramManager
InitNotify == InitBase /\ FaceInit /\ telegram = TRUE /\ shot_in = None

----------------------------------------------------------------------------
(* The clock advances.  It is read by time.time() on entering trigger_alert *)
(* and inside send_alert; a tick anywhere else in an invocation is the      *)
(* same as a tick just before the next read, so ticks are taken there.      *)

ReadsClock(t) == pc[t] = "idle" \/ (pc[t] = "notify" /\ telegram)

Tick(callers) ==
    /\ \E t \in callers : ReadsClock(t)
    /\ \E v \in TimeValues : v > clock /\ clock' = v
    /\ UNCHANGED <<alertVars, tgVars, files, callVars, shotVars, camVars, tg_calls, faceVars>>

----------------------------------------------------------------------------
(* trigger_alert, one step per shared-state access *)

\* now = time.time()
Enter(t, camera_id, face_name, face, confidence) ==
    /\ pc[t] = "idle"
    /\ ncalls < MaxCalls
    /\ ncalls' = ncalls + 1
    /\ loc' = [loc EXCEPT ![t] =
                 [NoLocals EXCEPT !.camera_id = camera_id,
                                  !.camera_name = CameraName(camera_id),
                                  !.face_name = face_name,
                                  !.face = face,
                                  !.confidence = confidence,
                                  !.now = clock]]
    /\ io' = [io EXCEPT ![t] = <<>>]
    /\ ret' = [ret EXCEPT ![t] = NoResult]
    /\ pc' = [pc EXCEPT ![t] = "check"]
    /\ UNCHANGED <<clock, alertVars, tgVars, files, shotVars, camVars, tg_calls, faceVars>>

\* key, last, in_cooldown, is_unknown; if in_cooldown
Check(t) ==
    /\ pc[t] = "check"
    /\ LET l == loc[t]
           key == Key(l.camera_id, l.face_name)
           last == LookupLast(last_alert_time, key)
           cd == InCooldown(l.now, last)
       IN /\ loc' = [loc EXCEPT ![t] =
                       [l EXCEPT !.key = key, !.last = last,
                                 !.in_cooldown = cd,
                                 !.is_unknown = IsUnknown(l.face_name)]]
          /\ pc' = [pc EXCEPT ![t] = IF cd THEN "suppress" ELSE "stamp"]
    /\ UNCHANGED <<clock, alertVars, tgVars, files, io, ret, ncalls, shotVars, camVars, tg_calls, faceVars>>

\* the cooldown branch: record the event and return it
Suppress(t) ==
    /\ pc[t] = "suppress"
    /\ LET event == CooldownEvent(loc[t])
       IN /\ alert_history' = Append(alert_history, event)
          /\ ret' = [ret EXCEPT ![t] = Returned(event)]
    /\ pc' = [pc EXCEPT ![t] = "idle"]
    /\ loc' = [loc EXCEPT ![t] = NoLocals]
    /\ UNCHANGED <<clock, last_alert_time, alert_enabled, screenshot_enabled,
                   tgVars, files, io, ncalls, shotVars, camVars, tg_calls, faceVars>>

\* self.last_alert_time[key] = now
Stamp(t) ==
    /\ pc[t] = "stamp"
    /\ last_alert_time' = StampTable(last_alert_time, loc[t].key, loc[t].now)
    /\ pc' = [pc EXCEPT ![t] = "screenshot"]
    /\ UNCHANGED <<clock, alert_history, alert_enabled, screenshot_enabled,
                   tgVars, files, loc, io, ret, ncalls, shotVars, camVars, tg_calls, faceVars>>

\* Mutant of CaptureResult: the path is returned whatever imwrite did.
CaptureResult_Always(filepath, outcome) == Some(filepath)

\* _capture_screenshot: the path written, or None when imwrite returns False
\* or anything in the try block raises
CaptureResult(filepath, outcome) ==
    IF outcome = "ok" THEN Some(filepath) ELSE None

\* if self.screenshot_enabled: screenshot_path = self._capture_screenshot(...)
Screenshot(t) ==
    /\ pc[t] = "screenshot"
    /\ IF screenshot_enabled
       THEN \E outcome \in {"ok", "false", "raise"} :
              LET l == loc[t]
                  filepath == ScreenshotFile(l.camera_id, Some(l.face_name),
                                             l.now)
              IN /\ loc' = [loc EXCEPT ![t].screenshot_path =
                               CaptureResult(filepath, outcome)]
                 /\ files' = IF outcome = "ok" THEN files \cup {filepath}
                             ELSE files
                 /\ io' = [io EXCEPT ![t] =
                             Append(@, [op |-> "imwrite", arg |-> outcome])]
       ELSE UNCHANGED <<loc, files, io>>
    /\ pc' = [pc EXCEPT ![t] = "event"]
    /\ UNCHANGED <<clock, alertVars, tgVars, ret, ncalls, shotVars, camVars, tg_calls, faceVars>>

\* event = AlertEvent(..., is_cooldown=False); self.alert_history.append(event)
Event(t) ==
    /\ pc[t] = "event"
    /\ LET event == FiredEvent(loc[t])
       IN /\ alert_history' = Append(alert_history, event)
          /\ loc' = [loc EXCEPT ![t].event = Some(event)]
    /\ pc' = [pc EXCEPT ![t] = "sound"]
    /\ UNCHANGED <<clock, last_alert_time, alert_enabled, screenshot_enabled,
                   tgVars, files, io, ret, ncalls, shotVars, camVars, tg_calls, faceVars>>

\* if self.alert_enabled: self._play_alert_sound(is_unknown=is_unknown)
\* (the entry records the file selected; a missing file or a mixer error is
\* logged inside _play_alert_sound and changes nothing else)
Sound(t) ==
    /\ pc[t] = "sound"
    /\ IF alert_enabled
       THEN io' = [io EXCEPT ![t] =
                     Append(@, [op |-> "sound",
                                arg |-> SoundPath(loc[t].is_unknown)])]
       ELSE UNCHANGED io
    /\ pc' = [pc EXCEPT ![t] = "notify"]
    /\ UNCHANGED <<clock, alertVars, tgVars, files, loc, ret, ncalls, shotVars, camVars, tg_calls, faceVars>>

\* if self.telegram: self.telegram.send_alert(message, screenshot_path);
\* return event
Notify(t) ==
    /\ pc[t] = "notify"
    /\ IF telegram
       THEN \E o \in TgOutcomes :
              LET r == SendAlert(tg_bot, tg_last_sent, failed_log, files, clock,
                                 Message(loc[t], clock),
                                 loc[t].screenshot_path, o)
              IN /\ tg_bot' = r.bot
                 /\ tg_last_sent' = r.last_sent
                 /\ failed_log' = r.log
                 /\ tg_sent' = IF Delivered(r)
                               THEN Append(tg_sent, Message(loc[t], clock))
                               ELSE tg_sent
                 /\ files' = r.files
                 /\ io' = [io EXCEPT ![t] =
                             Append(@, [op |-> "send_alert", arg |-> r.effects])]
                 /\ ret' = [ret EXCEPT ![t] =
                              IF r.raised THEN Raised
                              ELSE Returned(loc[t].event[1])]
       ELSE /\ UNCHANGED <<tg_bot, tg_last_sent, failed_log, tg_sent, files,
                           io>>
            /\ ret' = [ret EXCEPT ![t] = Returned(loc[t].event[1])]
    /\ pc' = [pc EXCEPT ![t] = "idle"]
    /\ loc' = [loc EXCEPT ![t] = NoLocals]
    /\ UNCHANGED <<clock, alertVars, telegram, ncalls, shotVars, camVars, tg_calls, faceVars>>

----------------------------------------------------------------------------
(* The other operations of AlertSystem *)

\* Mutant of ClearAlerts: the cooldown table is emptied with the history.
ClearAlerts_ResetsTable ==
    /\ alert_history # <<>>
    /\ alert_history' = <<>>
    /\ last_alert_time' = <<>>
    /\ UNCHANGED <<clock, alert_enabled, screenshot_enabled,
                   tgVars, files, callVars, shotVars, camVars, tg_calls, faceVars>>

ClearAlerts ==
    /\ alert_history # <<>>
    /\ alert_history' = <<>>
    /\ UNCHANGED <<clock, last_alert_time, alert_enabled, screenshot_enabled,
                   tgVars, files, callVars, shotVars, camVars, tg_calls, faceVars>>

EnableAlerts(enabled) ==
    /\ alert_enabled # enabled
    /\ alert_enabled' = enabled
    /\ UNCHANGED <<clock, last_alert_time, alert_history, screenshot_enabled,
                   tgVars, files, callVars, shotVars, camVars, tg_calls, faceVars>>

EnableScreenshots(enabled) ==
    /\ screenshot_enabled # enabled
    /\ screenshot_enabled' = enabled
    /\ UNCHANGED <<clock, last_alert_time, alert_history, alert_enabled,
                   tgVars, files, callVars, shotVars, camVars, tg_calls, faceVars>>

----------------------------------------------------------------------------
(* Specifications *)

\* the steps of an invocation after its entry
Step(t) ==
    \/ Check(t)
    \/ Suppress(t)
    \/ Stamp(t)
    \/ Screenshot(t)
    \/ Event(t)
    \/ Sound(t)
    \/ Notify(t)

\* One caller (the pipeline's single consumer thread), no Telegram manager.
Next ==
    \/ Tick(SeqThreads)
    \/ \E t \in SeqThreads, cn \in CallInputs, f \in Faces,
          k \in Confidences : Enter(t, cn[1], cn[2], f, k)
    \/ \E t \in SeqThreads : Step(t)
    \/ AllIdle /\ ClearAlerts
    \/ AllIdle /\ \E b \in BOOLEAN : EnableAlerts(b)
    \/ AllIdle /\ \E b \in BOOLEAN : EnableScreenshots(b)

Spec == Init /\ [][Next]_vars

\* One caller, with a Telegram manager configured.
NotifyNames == {S_Alice, S_Unknown}

NextNotify ==
    \/ Tick(SeqThreads)
    \/ \E t \in SeqThreads, n \in NotifyNames, f \in Faces,
          k \in Confidences : Enter(t, 1, n, f, k)
    \/ \E t \in SeqThreads : Step(t)
    \/ AllIdle /\ \E b \in BOOLEAN : EnableAlerts(b)
    \/ AllIdle /\ \E b \in BOOLEAN : EnableScreenshots(b)

SpecNotify == InitNotify /\ [][NextNotify]_vars

\* Two callers whose invocations may overlap.
NextConc ==
    \/ Tick(Threads)
    \/ \E t \in Threads, n \in NotifyNames, f \in Faces,
          k \in Confidences : Enter(t, 1, n, f, k)
    \/ \E t \in Threads : Step(t)

SpecConc == Init /\ [][NextConc]_vars

----------------------------------------------------------------------------
(* _capture_screenshot called on its own, on any face_name *)

LabelChars == {"A", "B", "C", "/", "*", "U+4EBA"}

StringsUpTo(n) == UNION {[1..k -> LabelChars] : k \in 0..n}

\* face_name: None, a spelling of "unrecognized", or any short string
ShotInputs ==
    {None} \cup {Some(n) : n \in UnknownAliases \cup StringsUpTo(MaxLabelLen)}

InitShot ==
    InitBase /\ FaceInit /\ telegram = FALSE /\ shot_in \in ShotInputs

CaptureScreenshot(camera_id, outcome) ==
    /\ shot_out = None
    /\ LET filepath == ScreenshotFile(camera_id, shot_in, clock)
       IN /\ shot_out' = Some([file |-> filepath,
                               result |-> CaptureResult(filepath, outcome)])
          /\ files' = IF outcome = "ok" THEN files \cup {filepath} ELSE files
    /\ UNCHANGED <<clock, alertVars, tgVars, callVars, shot_in, camVars, tg_calls, faceVars>>

NextShot ==
    \E c \in {1, 2}, outcome \in {"ok", "false", "raise"} :
        CaptureScreenshot(c, outcome)

SpecShot == InitShot /\ [][NextShot]_vars

----------------------------------------------------------------------------
(* CameraManager: the capture worker, _capture_frames *)

restVars == <<clock, alertVars, tgVars, files, callVars, shotVars, tg_calls, faceVars>>

DictPut(d, k, v) == [x \in DOMAIN d \cup {k} |-> IF x = k THEN v ELSE d[x]]
DictDel(d, k) == [x \in DOMAIN d \ {k} |-> d[x]]

\* queue.Queue(maxsize = 1): full(), and the test put() blocks on
QFull_Never(q) == FALSE
QFull(q) == Len(q) >= queue_maxsize

Alive(w) == workers[w].pc # "done"

\* The calls a worker can stay in for longer than a join waits: opening the
\* source, cap.read(), and a put() on a full queue.  time.sleep(1) is not
\* one of them.
Blocked(w) == workers[w].pc \in {"open", "read", "putwait"}

\* Leaving _capture_frames by return, by the loop test or by the except
\* clause: the finally clause releases the capture.
Exited(r) ==
    [r EXCEPT !.pc = "done", !.cap = "released", !.ret = FALSE,
              !.frame = None, !.pos = 0, !.wq = 0]

\* ret is False: log a warning, time.sleep(1), continue
ReadFailed_Exit(r) == Exited(r)
ReadFailed(r) == [r EXCEPT !.ret = FALSE, !.frame = None, !.pc = "sleep"]

\* What cap.read() can return: a video file yields its frames once and then
\* fails at end of file; a device delivers a frame or fails, and delivers at
\* most MaxFrames frames in a run.
ReadOutcomes(w) ==
    IF cameras[workers[w].cam].source = "file"
    THEN {workers[w].pos < FileLen}
    ELSE {ok \in BOOLEAN : ok => captured < MaxFrames}

\* cv2.VideoCapture(source); if not cap.isOpened(): log the error and return
WOpen(w) ==
    /\ w \in DOMAIN workers
    /\ workers[w].pc = "open"
    /\ \E ok \in BOOLEAN :
         workers' = [workers EXCEPT ![w] =
            IF ok THEN [@ EXCEPT !.cap = "open", !.opened = TRUE,
                                 !.pc = "loop"]
            ELSE Exited(@)]
    /\ UNCHANGED <<stop_event, capture_threads, frame_queues, queues, mgr,
                   captured, pub, lastget, restVars>>

\* while not self.stop_event.is_set():
WLoop(w) ==
    /\ w \in DOMAIN workers
    /\ workers[w].pc = "loop"
    /\ workers' = [workers EXCEPT ![w] =
          IF stop_event THEN Exited(@) ELSE [@ EXCEPT !.pc = "read"]]
    /\ UNCHANGED <<stop_event, capture_threads, frame_queues, queues, mgr,
                   captured, pub, lastget, restVars>>

\* ret, frame = cap.read(), the rotation of the frame, and the branch on ret
WRead(w) ==
    /\ w \in DOMAIN workers
    /\ workers[w].pc = "read"
    /\ LET c == workers[w].cam IN
       \E ok \in ReadOutcomes(w) :
         IF ok
         THEN /\ captured' = captured + 1
              /\ workers' = [workers EXCEPT ![w] =
                    [@ EXCEPT !.ret = TRUE, !.pos = @ + 1,
                              !.frame = Some(Frame(c, captured + 1)),
                              !.pc = "full"]]
         ELSE /\ workers' = [workers EXCEPT ![w] = ReadFailed(@)]
              /\ UNCHANGED captured
    /\ UNCHANGED <<stop_event, capture_threads, frame_queues, queues, mgr,
                   pub, lastget, restVars>>

\* time.sleep(1); continue
WSleep(w) ==
    /\ w \in DOMAIN workers
    /\ workers[w].pc = "sleep"
    /\ workers' = [workers EXCEPT ![w].pc = "loop"]
    /\ UNCHANGED <<stop_event, capture_threads, frame_queues, queues, mgr,
                   captured, pub, lastget, restVars>>

\* if self.frame_queues[cam_id].full():   (KeyError ends the worker)
WFull(w) ==
    /\ w \in DOMAIN workers
    /\ workers[w].pc = "full"
    /\ LET c == workers[w].cam IN
       workers' = [workers EXCEPT ![w] =
          IF c \notin DOMAIN frame_queues THEN Exited(@)
          ELSE IF QFull(queues[frame_queues[c]])
               THEN [@ EXCEPT !.pc = "getnw"]
               ELSE [@ EXCEPT !.pc = "put"]]
    /\ UNCHANGED <<stop_event, capture_threads, frame_queues, queues, mgr,
                   captured, pub, lastget, restVars>>

\* self.frame_queues[cam_id].get_nowait(), queue.Empty ignored
WGetNowait(w) ==
    /\ w \in DOMAIN workers
    /\ workers[w].pc = "getnw"
    /\ LET c == workers[w].cam IN
       IF c \notin DOMAIN frame_queues
       THEN /\ workers' = [workers EXCEPT ![w] = Exited(@)]
            /\ UNCHANGED queues
       ELSE /\ workers' = [workers EXCEPT ![w].pc = "put"]
            /\ queues' = [queues EXCEPT ![frame_queues[c]] =
                             IF @ = <<>> THEN @ ELSE Tail(@)]
    /\ UNCHANGED <<stop_event, capture_threads, frame_queues, mgr,
                   captured, pub, lastget, restVars>>

\* self.frame_queues[cam_id].put(frame): the frame goes in when the queue
\* has room; on a full queue the call waits inside that Queue object.
WPut(w) ==
    /\ w \in DOMAIN workers
    /\ workers[w].pc = "put"
    /\ LET c == workers[w].cam IN
       IF c \notin DOMAIN frame_queues
       THEN /\ workers' = [workers EXCEPT ![w] = Exited(@)]
            /\ UNCHANGED <<queues, pub>>
       ELSE LET q == frame_queues[c] IN
            IF QFull(queues[q])
            THEN /\ workers' = [workers EXCEPT ![w].pc = "putwait",
                                               ![w].wq = q]
                 /\ UNCHANGED <<queues, pub>>
            ELSE /\ queues' = [queues EXCEPT ![q] =
                                  Append(@, workers[w].frame[1])]
                 /\ pub' = [pub EXCEPT ![c] =
                               Append(@, workers[w].frame[1])]
                 /\ workers' = [workers EXCEPT ![w].pc = "loop"]
    /\ UNCHANGED <<stop_event, capture_threads, frame_queues, mgr,
                   captured, lastget, restVars>>

\* The waiting put() returns once its Queue object has room.
WPutWait(w) ==
    /\ w \in DOMAIN workers
    /\ workers[w].pc = "putwait"
    /\ LET c == workers[w].cam
           q == workers[w].wq IN
       /\ ~ QFull(queues[q])
       /\ queues' = [queues EXCEPT ![q] = Append(@, workers[w].frame[1])]
       /\ pub' = IF c \in DOMAIN frame_queues /\ frame_queues[c] = q
                 THEN [pub EXCEPT ![c] = Append(@, workers[w].frame[1])]
                 ELSE pub
       /\ workers' = [workers EXCEPT ![w].pc = "loop", ![w].wq = 0]
    /\ UNCHANGED <<stop_event, capture_threads, frame_queues, mgr,
                   captured, lastget, restVars>>

WorkerStep(w) ==
    \/ WOpen(w)
    \/ WLoop(w)
    \/ WRead(w)
    \/ WSleep(w)
    \/ WFull(w)
    \/ WGetNowait(w)
    \/ WPut(w)
    \/ WPutWait(w)

----------------------------------------------------------------------------
(* CameraManager: operations of the calling (UI) thread *)

\* Where the caller continues when start_camera returns: the loop of
\* start_all_cameras or the caller's own code.
AfterStart(m) ==
    IF m.op = "start_all"
    THEN [m EXCEPT !.pc = "all_next", !.cam = 0, !.thread = 0]
    ELSE MgrIdle

\* start_camera, lines 97-108: the guards, and when the camera already has a
\* thread the first half of _cleanup_camera_thread (stop_event.set() and
\* capture_threads.pop).
EnterStartCamera(c, op, todo) ==
    LET m == [pc |-> "sc_queue", op |-> op, cam |-> c, thread |-> 0,
              todo |-> todo, warned |-> mgr.warned] IN
    IF c \notin DOMAIN cameras \/ ~ cameras[c].enabled
    THEN /\ mgr' = AfterStart(m)
         /\ UNCHANGED <<stop_event, capture_threads>>
    ELSE IF c \in DOMAIN capture_threads
    THEN /\ stop_event' = TRUE
         /\ capture_threads' = DictDel(capture_threads, c)
         /\ mgr' = [m EXCEPT !.pc = "cl_join", !.thread = capture_threads[c]]
    ELSE /\ mgr' = m
         /\ UNCHANGED <<stop_event, capture_threads>>

StartCamera(c) ==
    /\ mgr.pc = "idle"
    /\ Len(workers) < MaxThreads
    /\ EnterStartCamera(c, "start_camera", <<>>)
    /\ UNCHANGED <<frame_queues, queues, workers, captured, pub, lastget,
                   restVars>>

\* stop_camera: _cleanup_camera_thread when the camera has a thread
StopCamera(c) ==
    /\ mgr.pc = "idle"
    /\ IF c \in DOMAIN capture_threads
       THEN /\ stop_event' = TRUE
            /\ capture_threads' = DictDel(capture_threads, c)
            /\ mgr' = [pc |-> "cl_join", op |-> "stop_camera", cam |-> c,
                       thread |-> capture_threads[c], todo |-> <<>>,
                       warned |-> {}]
       ELSE UNCHANGED <<stop_event, capture_threads, mgr>>
    /\ UNCHANGED <<frame_queues, queues, workers, captured, pub, lastget,
                   restVars>>

\* if thread.is_alive(): logger.warning(...)
JoinWarning(w) == IF Alive(w) THEN {w} ELSE {}

\* thread.join(timeout = 2.0): returns when the thread has ended, or after
\* two seconds while the thread is still inside a blocking call; the
\* warning for a thread that is still alive follows.
ClJoin ==
    /\ mgr.pc = "cl_join"
    /\ ~ Alive(mgr.thread) \/ Blocked(mgr.thread)
    /\ mgr' = [mgr EXCEPT !.pc = "cl_drain",
                          !.warned = @ \cup JoinWarning(mgr.thread)]
    /\ UNCHANGED <<stop_event, capture_threads, frame_queues, queues,
                   workers, captured, pub, lastget, restVars>>

\* if cam_id in self.frame_queues: get_nowait() until queue.Empty
ClDrain ==
    /\ mgr.pc = "cl_drain"
    /\ IF mgr.cam \notin DOMAIN frame_queues
       THEN /\ mgr' = IF mgr.op = "stop_camera" THEN MgrIdle
                      ELSE [mgr EXCEPT !.pc = "sc_queue", !.thread = 0]
            /\ UNCHANGED queues
       ELSE IF queues[frame_queues[mgr.cam]] # <<>>
       THEN /\ queues' = [queues EXCEPT ![frame_queues[mgr.cam]] = Tail(@)]
            /\ UNCHANGED mgr
       ELSE /\ mgr' = [mgr EXCEPT !.pc = "cl_del"]
            /\ UNCHANGED queues
    /\ UNCHANGED <<stop_event, capture_threads, frame_queues, workers,
                   captured, pub, lastget, restVars>>

\* del self.frame_queues[cam_id]
ClDel ==
    /\ mgr.pc = "cl_del"
    /\ frame_queues' = DictDel(frame_queues, mgr.cam)
    /\ pub' = [pub EXCEPT ![mgr.cam] = <<>>]
    /\ mgr' = IF mgr.op = "stop_camera" THEN MgrIdle
              ELSE [mgr EXCEPT !.pc = "sc_queue", !.thread = 0]
    /\ UNCHANGED <<stop_event, capture_threads, queues, workers, captured,
                   lastget, restVars>>

\* self.frame_queues[cam_id] = queue.Queue(maxsize = 1)
ScQueue ==
    /\ mgr.pc = "sc_queue"
    /\ queues' = Append(queues, <<>>)
    /\ frame_queues' = DictPut(frame_queues, mgr.cam, Len(queues) + 1)
    /\ pub' = [pub EXCEPT ![mgr.cam] = <<>>]
    /\ mgr' = [mgr EXCEPT !.pc = "sc_clear"]
    /\ UNCHANGED <<stop_event, capture_threads, workers, captured, lastget,
                   restVars>>

\* self.stop_event.clear()
ScClear ==
    /\ mgr.pc = "sc_clear"
    /\ stop_event' = FALSE
    /\ mgr' = [mgr EXCEPT !.pc = "sc_start"]
    /\ UNCHANGED <<capture_threads, frame_queues, queues, workers, captured,
                   pub, lastget, restVars>>

\* thread = threading.Thread(...); self.capture_threads[cam_id] = thread;
\* thread.start(); return True
ScStart ==
    /\ mgr.pc = "sc_start"
    /\ workers' = Append(workers, NewWorker(mgr.cam))
    /\ capture_threads' = DictPut(capture_threads, mgr.cam, Len(workers) + 1)
    /\ mgr' = AfterStart(mgr)
    /\ UNCHANGED <<stop_event, frame_queues, queues, captured, pub, lastget,
                   restVars>>

\* start_all_cameras: stop_event.clear(), then start_camera for every
\* enabled camera
StartAll ==
    /\ mgr.pc = "idle"
    /\ Len(workers) + Len(EnabledCams) <= MaxThreads
    /\ stop_event' = FALSE
    /\ mgr' = [pc |-> "all_next", op |-> "start_all", cam |-> 0,
               thread |-> 0, todo |-> EnabledCams, warned |-> {}]
    /\ UNCHANGED <<capture_threads, frame_queues, queues, workers, captured,
                   pub, lastget, restVars>>

AllNext ==
    /\ mgr.pc = "all_next"
    /\ IF mgr.todo = <<>>
       THEN /\ mgr' = MgrIdle
            /\ UNCHANGED <<stop_event, capture_threads>>
       ELSE EnterStartCamera(Head(mgr.todo), "start_all", Tail(mgr.todo))
    /\ UNCHANGED <<frame_queues, queues, workers, captured, pub, lastget,
                   restVars>>

\* The threads of capture_threads.values(), by camera.
RECURSIVE ThreadList(_)
ThreadList(d) ==
    IF DOMAIN d = {} THEN <<>>
    ELSE LET c == CHOOSE x \in DOMAIN d : \A y \in DOMAIN d : x <= y
         IN <<d[c]>> \o ThreadList(DictDel(d, c))

\* stop_all_cameras: stop_event.set()
StopAll ==
    /\ mgr.pc = "idle"
    /\ stop_event' = TRUE
    /\ mgr' = [pc |-> "st_join", op |-> "stop_all", cam |-> 0, thread |-> 0,
               todo |-> ThreadList(capture_threads), warned |-> {}]
    /\ UNCHANGED <<capture_threads, frame_queues, queues, workers, captured,
                   pub, lastget, restVars>>

\* for thread in self.capture_threads.values(): thread.join(timeout = 2)
StJoin ==
    /\ mgr.pc = "st_join"
    /\ mgr.todo # <<>>
    /\ ~ Alive(Head(mgr.todo)) \/ Blocked(Head(mgr.todo))
    /\ mgr' = [mgr EXCEPT !.todo = Tail(@)]
    /\ UNCHANGED <<stop_event, capture_threads, frame_queues, queues,
                   workers, captured, pub, lastget, restVars>>

\* self.capture_threads.clear(); self.frame_queues.clear()
StClear ==
    /\ mgr.pc = "st_join"
    /\ mgr.todo = <<>>
    /\ capture_threads' = <<>>
    /\ frame_queues' = <<>>
    /\ pub' = [c \in CamIds |-> <<>>]
    /\ mgr' = MgrIdle
    /\ UNCHANGED <<stop_event, queues, workers, captured, lastget,
                   restVars>>

\* Mutant of QGetNowait: the frame is read and left in the queue.
QGetNowait_Peek(q) == q

\* queue.Queue.get_nowait() on a queue that is not empty: what is left
QGetNowait(q) == Tail(q)

\* get_frame(cam_id), called by the thread that also calls the operations
\* above: None without a queue, else get_nowait() or None on queue.Empty
GetFrame(c) ==
    /\ mgr.pc = "idle"
    /\ IF c \notin DOMAIN frame_queues \/ queues[frame_queues[c]] = <<>>
       THEN /\ lastget' = Some([cam |-> c, frame |-> None,
                                since |-> pub[c]])
            /\ UNCHANGED queues
       ELSE /\ lastget' = Some([cam |-> c,
                                frame |-> Some(Head(queues[frame_queues[c]])),
                                since |-> pub[c]])
            /\ queues' = [queues EXCEPT ![frame_queues[c]] = QGetNowait(@)]
    /\ pub' = [pub EXCEPT ![c] = <<>>]
    /\ UNCHANGED <<stop_event, capture_threads, frame_queues, workers, mgr,
                   captured, restVars>>

NextCam ==
    \/ \E c \in CamIds : StartCamera(c)
    \/ \E c \in CamIds : StopCamera(c)
    \/ StartAll
    \/ AllNext
    \/ StopAll
    \/ StJoin
    \/ StClear
    \/ ClJoin
    \/ ClDrain
    \/ ClDel
    \/ ScQueue
    \/ ScClear
    \/ ScStart
    \/ \E c \in CamIds : GetFrame(c)
    \/ \E w \in DOMAIN workers : WorkerStep(w)

SpecCam == Init /\ [][NextCam]_vars

\* Scheduling: the operating system keeps running every capture thread that
\* can take a step (a blocking read returns), and an operation that was
\* called runs to its end.  Which operations are called, and when, is up to
\* the caller.
MgrStep ==
    \/ AllNext
    \/ StJoin
    \/ StClear
    \/ ClJoin
    \/ ClDrain
    \/ ClDel
    \/ ScQueue
    \/ ScClear
    \/ ScStart

FairCam ==
    /\ WF_vars(MgrStep)
    /\ \A w \in 1..MaxThreads : WF_vars(WorkerStep(w))

SpecCamFair == Init /\ [][NextCam]_vars /\ FairCam

----------------------------------------------------------------------------
(* TelegramManager.send_alert called directly *)

MaxSends == 3     \* direct send_alert calls in one run

\* Clock readings of the direct calls (non-decreasing).
TgTimes == {0, 2, 6, 11}

\* The text of the k-th call, and the image a call may pass.
TgText(k) == <<"a", "l", "e", "r", "t">> \o IntStr(k)
TgImage == ScreenshotFile(1, Some(S_Alice), 0)
TgImages == {None, Some(TgImage)}

TickTg ==
    /\ Len(tg_calls) < MaxSends
    /\ \E v \in TgTimes : v > clock /\ clock' = v
    /\ UNCHANGED <<alertVars, tgVars, files, callVars, shotVars, camVars,
                   tg_calls, faceVars>>

\* The caller's screenshot reaches the disk (cv2.imwrite) before the call.
SaveImage ==
    /\ TgImage \notin files
    /\ files' = files \cup {TgImage}
    /\ UNCHANGED <<clock, alertVars, tgVars, callVars, shotVars, camVars,
                   tg_calls, faceVars>>

SendAlertCall(message, image_path) ==
    /\ telegram
    /\ Len(tg_calls) < MaxSends
    /\ \E o \in TgOutcomes :
         LET r == SendAlert(tg_bot, tg_last_sent, failed_log, files, clock,
                            message, image_path, o)
         IN /\ tg_bot' = r.bot
            /\ tg_last_sent' = r.last_sent
            /\ failed_log' = r.log
            /\ files' = r.files
            /\ tg_sent' = IF Delivered(r) THEN Append(tg_sent, message)
                          ELSE tg_sent
            /\ tg_calls' = Append(tg_calls,
                              [now |-> clock, message |-> message,
                               image_path |-> image_path,
                               effects |-> r.effects, raised |-> r.raised])
    /\ UNCHANGED <<clock, alertVars, telegram, callVars, shotVars, camVars,
                   faceVars>>

NextTg ==
    \/ TickTg
    \/ SaveImage
    \/ \E image_path \in TgImages :
          SendAlertCall(TgText(Len(tg_calls) + 1), image_path)

SpecTg == InitNotify /\ [][NextTg]_vars

\* The same call when the channel takes its time: _send reads the clock
\* first (now = time.time()) and the awaited send_photo / send_message
\* returns, or raises, at a later reading of the clock.
SendAlertTimed(message, image_path) ==
    /\ telegram
    /\ Len(tg_calls) < MaxSends
    /\ \E done \in TgTimes :
         /\ done >= clock
         /\ clock' = done
    /\ \E o \in TgOutcomes :
         LET r == SendAlert(tg_bot, tg_last_sent, failed_log, files, clock,
                            message, image_path, o)
         IN /\ tg_bot' = r.bot
            /\ tg_last_sent' = r.last_sent
            /\ failed_log' = r.log
            /\ files' = r.files
            /\ tg_sent' = IF Delivered(r) THEN Append(tg_sent, message)
                          ELSE tg_sent
            /\ tg_calls' = Append(tg_calls,
                              [now |-> clock, done |-> clock',
                               message |-> message,
                               image_path |-> image_path,
                               effects |-> r.effects, raised |-> r.raised])
    /\ UNCHANGED <<alertVars, telegram, callVars, shotVars, camVars,
                   faceVars>>

\* Text-only alerts (screenshots are disabled).
NextTgTimed ==
    \/ TickTg
    \/ SendAlertTimed(TgText(Len(tg_calls) + 1), None)

SpecTgTimed == InitNotify /\ [][NextTgTimed]_vars

----------------------------------------------------------------------------
(* FaceDetector: load_known_faces, one step per access to self.known_faces *)

\* face_file.suffix.lower()
Lower(suffix) ==
    CASE suffix = ".PNG" -> ".png"
      [] suffix = ".JPG" -> ".jpg"
      [] suffix = ".JPEG" -> ".jpeg"
      [] OTHER -> suffix

\* KnownFace(name = face_file.stem, embedding = faces[0].embedding,
\*           image_path = str(face_file))
KnownFaceOf(f) ==
    [name |-> f.stem, embedding |-> f.embedding,
     image_path |-> <<f.stem, f.suffix>>]

\* The body of the loop for one file: the list after it.  A file of another
\* type, one imread cannot read, one without a face and one on which the
\* model raises (caught and logged inside the loop) are skipped.
LoadOne(gallery, f) ==
    IF Lower(f.suffix) \notin {".jpg", ".jpeg", ".png"} THEN gallery
    ELSE IF f.kind # "face" THEN gallery
    ELSE Append(gallery, KnownFaceOf(f))

\* The gallery a complete pass over the files gives.
RECURSIVE GalleryOf(_)
GalleryOf(fs) ==
    IF fs = <<>> THEN <<>>
    ELSE LoadOne(GalleryOf(SubSeq(fs, 1, Len(fs) - 1)), fs[Len(fs)])

LoadEnds(status, failed) ==
    [loader EXCEPT !.pc = "idle", !.todo = <<>>, !.status = status,
                   !.failed = failed]

faceRest == <<clock, alertVars, tgVars, files, callVars, shotVars, camVars,
              tg_calls>>

\* The call, up to and including self.known_faces.clear()
LoadKnownFaces ==
    /\ loader.pc = "idle"
    /\ known_faces' = <<>>
    /\ loader' = [pc |-> "exists", dir |-> face_dir, todo |-> <<>>,
                  old |-> known_faces, status |-> "none", failed |-> FALSE]
    /\ UNCHANGED <<recognition_threshold, face_dir, rec, det_calls, faceRest>>

\* if not known_faces_dir.exists(): warning; return
LoadExists ==
    /\ loader.pc = "exists"
    /\ loader' = IF face_dir = None THEN LoadEnds("returned", TRUE)
                 ELSE [loader EXCEPT !.pc = "glob"]
    /\ UNCHANGED <<known_faces, recognition_threshold, face_dir, rec,
                   det_calls, faceRest>>

\* known_faces_dir.glob('*.*'): the files, or an OSError from the listing,
\* which the outer except logs and raises again
LoadGlob ==
    /\ loader.pc = "glob"
    /\ \E ok \in BOOLEAN :
          loader' = IF ok /\ face_dir # None
                    THEN [loader EXCEPT !.pc = "file", !.todo = face_dir[1]]
                    ELSE LoadEnds("raised", TRUE)
    /\ UNCHANGED <<known_faces, recognition_threshold, face_dir, rec,
                   det_calls, faceRest>>

\* one iteration of the loop
LoadFile ==
    /\ loader.pc = "file"
    /\ loader.todo # <<>>
    /\ known_faces' = LoadOne(known_faces, Head(loader.todo))
    /\ loader' = [loader EXCEPT !.todo = Tail(loader.todo)]
    /\ UNCHANGED <<recognition_threshold, face_dir, rec, det_calls, faceRest>>

\* the loop is over: the count is logged and the call returns
LoadReturn ==
    /\ loader.pc = "file"
    /\ loader.todo = <<>>
    /\ loader' = LoadEnds("returned", FALSE)
    /\ UNCHANGED <<known_faces, recognition_threshold, face_dir, rec,
                   det_calls, faceRest>>

LoadStep == LoadExists \/ LoadGlob \/ LoadFile \/ LoadReturn

\* FaceManagerDialog adds, renames or deletes files (or the directory goes).
ChangeDir(d) ==
    /\ loader.pc = "idle"
    /\ d # face_dir
    /\ face_dir' = d
    /\ UNCHANGED <<known_faces, recognition_threshold, loader, rec, det_calls,
                   faceRest>>

\* MainWindow.update_threshold(value): recognition_threshold = value / 100
UpdateThreshold(value) ==
    /\ value # recognition_threshold
    /\ recognition_threshold' = value
    /\ UNCHANGED <<known_faces, face_dir, loader, rec, det_calls, faceRest>>

----------------------------------------------------------------------------
(* FaceDetector.recognize_faces *)

\* Mutant of EmptyGalleryResult: no result at all for an empty gallery.
EmptyGalleryResult_Nothing(faces) == <<>>

\* return [(face, None, 0.0) for face in faces]
EmptyGalleryResult(faces) ==
    [k \in DOMAIN faces |->
        [face |-> faces[k], known |-> None, similarity |-> 0]]

\* Mutant of ArgMax: the last index holding the maximum.
ArgMax_Last(similarities) ==
    CHOOSE i \in DOMAIN similarities :
       /\ \A j \in DOMAIN similarities : similarities[j] <= similarities[i]
       /\ \A j \in DOMAIN similarities : j > i =>
             similarities[j] < similarities[i]

\* np.argmax: the first index holding the maximum
ArgMax(similarities) ==
    CHOOSE i \in DOMAIN similarities :
       /\ \A j \in DOMAIN similarities : similarities[j] <= similarities[i]
       /\ \A j \in DOMAIN similarities : j < i =>
             similarities[j] < similarities[i]

\* Mutant of AboveThreshold: a similarity equal to the threshold matches.
AboveThreshold_Inclusive(max_similarity, threshold) ==
    max_similarity >= threshold

\* if max_similarity > self.recognition_threshold
AboveThreshold(max_similarity, threshold) == max_similarity > threshold

\* The loop body for one face.
RecognizeOne(gallery, threshold, face) ==
    IF face.embedding = None
    THEN [face |-> face, known |-> None, similarity |-> 0]
    ELSE LET similarities ==
                [i \in DOMAIN gallery |->
                    CosineSimilarity(gallery[i].embedding, face.embedding[1])]
             max_idx == ArgMax(similarities)
             max_similarity == similarities[max_idx]
         IN IF AboveThreshold(max_similarity, threshold)
            THEN [face |-> face, known |-> Some(gallery[max_idx]),
                  similarity |-> max_similarity]
            ELSE [face |-> face, known |-> None,
                  similarity |-> max_similarity]

\* recognize_faces(faces) on the gallery and threshold it finds.  (The
\* except branch needs embeddings of different lengths, which one model
\* never produces.)
RecognizeFaces(gallery, threshold, faces) ==
    IF gallery = <<>> THEN EmptyGalleryResult(faces)
    ELSE [k \in DOMAIN faces |-> RecognizeOne(gallery, threshold, faces[k])]

\* The faces detect_faces hands to recognize_faces.
RecFaces ==
    {[embedding |-> e, age |-> Some(30), gender |-> Some("Male")] :
        e \in FaceEmbeddings}
FaceLists == UNION {[1..k -> RecFaces] : k \in 0..MaxFaces}

RecognizeCall(faces) ==
    /\ rec' = Some([faces |-> faces, gallery |-> known_faces,
                    threshold |-> recognition_threshold,
                    loading |-> loader.pc # "idle",
                    results |-> RecognizeFaces(known_faces,
                                               recognition_threshold, faces)])
    /\ UNCHANGED <<known_faces, recognition_threshold, face_dir, loader,
                   det_calls, faceRest>>

\* recognize_faces as a function of the gallery, the threshold and the
\* faces: the gallery is any one a load leaves behind.
Galleries == {GalleryOf(d[1]) : d \in Dirs \ {None}}

InitRec ==
    /\ InitBase /\ telegram = FALSE /\ shot_in = None
    /\ known_faces \in Galleries
    /\ recognition_threshold \in Thresholds
    /\ face_dir = Some(<<F_alice>>)
    /\ loader = LoaderIdle
    /\ rec = None
    /\ det_calls = <<>>

NextRec ==
    \/ \E v \in Thresholds : UpdateThreshold(v)
    \/ \E faces \in FaceLists : RecognizeCall(faces)

SpecRec == InitRec /\ [][NextRec]_vars

\* The gallery is reloaded (at startup, and after the face manager changed
\* the directory) while the pipeline's consumer matches the faces of its
\* frames, one face per frame here.
OneFaceLists == {<<f>> : f \in RecFaces}

NextFace ==
    \/ LoadKnownFaces
    \/ LoadStep
    \/ \E d \in Dirs : ChangeDir(d)
    \/ \E faces \in OneFaceLists : RecognizeCall(faces)

SpecFace == Init /\ [][NextFace]_vars

----------------------------------------------------------------------------
(* FaceDetector.detect_faces *)

\* config['recognition'].get('analysis_enabled', True)
analysis_enabled == TRUE

\* What self.model.get(image) finds in an image: per face its embedding,
\* age and sex scores (index of the larger one).
RawFaces ==
    {[embedding |-> Some(<<3, 4>>), age |-> 30, sex |-> 0],
     [embedding |-> Some(<<4, 3>>), age |-> 25, sex |-> 1]}
Images == UNION {[1..k -> RawFaces] : k \in 0..MaxFaces}

\* _get_age(face)
GetAge(face) == IF ~analysis_enabled THEN None ELSE Some(face.age)

\* _get_gender(face)
GetGender(face) ==
    IF ~analysis_enabled THEN None
    ELSE Some(IF face.sex = 1 THEN "Female" ELSE "Male")

\* Face(bbox, kps, det_score, embedding, age, gender, face_img)
MkFace(face) ==
    [embedding |-> face.embedding, age |-> GetAge(face),
     gender |-> GetGender(face)]

\* Where a call may fail: None (nowhere), Some(0) (self.model.get raises),
\* Some(k) (building the k-th Face raises).
FailPoints(image) == {None} \cup {Some(k) : k \in 0..Len(image)}

\* Mutant of DetectFaces: no try around the body, the error leaves the call.
DetectFaces_Raises(image, fail) ==
    IF fail = None
    THEN [status |-> "returned",
          faces |-> [k \in DOMAIN image |-> MkFace(image[k])]]
    ELSE [status |-> "raised", faces |-> <<>>]

\* detect_faces(image): how the call ends and the list it returns
DetectFaces(image, fail) ==
    IF fail = None
    THEN [status |-> "returned",
          faces |-> [k \in DOMAIN image |-> MkFace(image[k])]]
    ELSE [status |-> "returned", faces |-> <<>>]

DetectCall(image, fail) ==
    /\ Len(det_calls) < MaxDetects
    /\ LET r == DetectFaces(image, fail)
       IN det_calls' = Append(det_calls,
                          [image |-> image, fail |-> fail,
                           status |-> r.status, faces |-> r.faces])
    /\ UNCHANGED <<known_faces, recognition_threshold, face_dir, loader, rec,
                   faceRest>>

NextDetect ==
    \E image \in Images : \E fail \in FailPoints(image) :
       DetectCall(image, fail)

SpecDetect == Init /\ [][NextDetect]_vars

----------------------------------------------------------------------------
(* Properties *)

SameKey(e1, e2) ==
    e1.camera_id = e2.camera_id /\ e1.face_name = e2.face_name

EventKey(e) == Key(e.camera_id, e.face_name)

Fired(i) == ~alert_history[i].is_cooldown

Events == 1..Len(alert_history)

\* The last real alert of its key in the history: no later real alert of
\* that key is recorded.
LastFired(i) ==
    /\ Fired(i)
    /\ \A j \in Events :
          (j > i /\ SameKey(alert_history[i], alert_history[j])) => ~Fired(j)

\* C1: a detection less than alert_cooldown after the real alert of the same
\* (camera, name) is recorded as a cooldown event, and the cooldown entry of
\* the key stays at the time of that real alert however many suppressed
\* detections follow it.
C1_CooldownSuppresses ==
    /\ \A i, j \in Events :
          ( /\ i < j
            /\ SameKey(alert_history[i], alert_history[j])
            /\ Fired(i)
            /\ alert_history[j].timestamp - alert_history[i].timestamp
                  < alert_cooldown )
          => alert_history[j].is_cooldown
    /\ AllIdle =>
          \A i \in Events :
             LastFired(i) =>
                /\ EventKey(alert_history[i]) \in DOMAIN last_alert_time
                /\ last_alert_time[EventKey(alert_history[i])]
                      = alert_history[i].timestamp

\* C1 witness: a real alert at t1, then a later detection of the same key
\* inside the window, suppressed, with the entry still at t1.
C1_Witness ==
    /\ AllIdle
    /\ \E i, j \in Events :
          /\ i < j
          /\ SameKey(alert_history[i], alert_history[j])
          /\ Fired(i)
          /\ alert_history[j].is_cooldown
          /\ alert_history[j].timestamp > alert_history[i].timestamp
          /\ alert_history[j].timestamp - alert_history[i].timestamp
                < alert_cooldown
          /\ last_alert_time[EventKey(alert_history[i])]
                = alert_history[i].timestamp

\* C2: a detection alert_cooldown or more (exactly alert_cooldown included)
\* after the last real alert of the same (camera, name) is a real alert, and
\* the cooldown entry of the key becomes its time.
C2_CooldownExpiry ==
    /\ \A i, j \in Events :
          ( /\ i < j
            /\ SameKey(alert_history[i], alert_history[j])
            /\ Fired(i)
            /\ \A k \in Events :
                  (i < k /\ k < j /\ SameKey(alert_history[i], alert_history[k]))
                  => ~Fired(k)
            /\ alert_history[j].timestamp - alert_history[i].timestamp
                  >= alert_cooldown )
          => Fired(j)
    /\ AllIdle =>
          \A j \in Events :
             ( /\ Fired(j)
               /\ \A k \in Events :
                     (k > j /\ SameKey(alert_history[j], alert_history[k]))
                     => FALSE )
             => last_alert_time[EventKey(alert_history[j])]
                   = alert_history[j].timestamp

\* C2 witness: two real alerts of one key exactly alert_cooldown apart, the
\* entry at the time of the second.
C2_Witness ==
    /\ AllIdle
    /\ \E i, j \in Events :
          /\ i < j
          /\ SameKey(alert_history[i], alert_history[j])
          /\ Fired(i) /\ Fired(j)
          /\ alert_history[j].timestamp - alert_history[i].timestamp
                = alert_cooldown
          /\ last_alert_time[EventKey(alert_history[j])]
                = alert_history[j].timestamp

\* C3: an invocation for a key that has no cooldown entry never takes the
\* cooldown branch, whatever the clock reads.
C3_FirstCallFires ==
    \A t \in Threads :
       pc[t] = "suppress" => loc[t].key \in DOMAIN last_alert_time

\* An invocation past the cooldown decision, performing a real alert.
Firing(t) == pc[t] \in {"screenshot", "event", "sound", "notify"}

\* C4: two overlapping invocations for the same key whose clock readings are
\* less than alert_cooldown apart are never both real alerts.
C4_AtMostOneFires ==
    \A t1, t2 \in Threads :
       ( /\ t1 # t2
         /\ Firing(t1) /\ Firing(t2)
         /\ loc[t1].camera_id = loc[t2].camera_id
         /\ loc[t1].face_name = loc[t2].face_name
         /\ loc[t1].now - loc[t2].now < alert_cooldown
         /\ loc[t2].now - loc[t1].now < alert_cooldown )
       => FALSE

\* The invocation of caller t has returned a cooldown event.
ReturnedCooldown(t) ==
    /\ pc[t] = "idle"
    /\ ret[t].status = "returned"
    /\ ret[t].event[1].is_cooldown

\* C5: a cooldown event has no screenshot path, and the invocation that
\* returns it does no I/O (no screenshot, sound or notification) and leaves
\* last_alert_time, the files and the Telegram manager as they were: a
\* cooldown event is returned only by the cooldown branch, and no step of an
\* invocation up to and including that branch writes any of them.
C5_CooldownEventInert ==
    /\ [](\A i \in Events :
             alert_history[i].is_cooldown
             => alert_history[i].screenshot_path = None)
    /\ [](\A t \in Threads : ReturnedCooldown(t) => io[t] = <<>>)
    /\ [][\A t \in Threads :
             /\ (ret'[t] # ret[t] /\ ReturnedCooldown(t)')
                => pc[t] = "suppress"
             /\ (pc'[t] # pc[t] /\ pc[t] \in {"idle", "check", "suppress"})
                => /\ last_alert_time' = last_alert_time
                   /\ files' = files
                   /\ tgVars' = tgVars
                   /\ io'[t] = <<>>]_vars

\* C5 witness: with screenshots, sound and Telegram all on, a detection
\* inside the window of an earlier real alert has returned a cooldown event.
C5_Witness ==
    /\ telegram /\ alert_enabled /\ screenshot_enabled
    /\ \E t \in Threads :
          /\ ReturnedCooldown(t)
          /\ io[t] = <<>>
          /\ \E i \in Events :
                /\ Fired(i)
                /\ SameKey(alert_history[i], ret[t].event[1])
                /\ alert_history[i].timestamp < ret[t].event[1].timestamp

\* C6: no I/O is done before the cooldown decision and the stamp, and while
\* an invocation is at its screenshot, sound or notification step the entry
\* of its key is already its own clock reading, so that a detection of the
\* key at that reading is in cooldown.
C6_StampBeforeIO ==
    \A t \in Threads :
       /\ pc[t] \in {"check", "stamp", "suppress"} => io[t] = <<>>
       /\ Firing(t) =>
             /\ loc[t].key \in DOMAIN last_alert_time
             /\ last_alert_time[loc[t].key] = loc[t].now
             /\ InCooldown(loc[t].now, LookupLast(last_alert_time, loc[t].key))

\* C6 witness: a real alert about to notify, its screenshot and sound done.
C6_Witness ==
    /\ telegram
    /\ \E t \in Threads :
          /\ pc[t] = "notify"
          /\ Len(io[t]) = 2
          /\ last_alert_time[loc[t].key] = loc[t].now

\* C7: a real alert for one spelling of "unrecognized" suppresses a
\* detection under any spelling on the same camera within alert_cooldown.
C7_AliasesShareKey ==
    \A i, j \in Events :
       ( /\ i < j
         /\ alert_history[i].camera_id = alert_history[j].camera_id
         /\ alert_history[i].face_name \in UnknownAliases
         /\ alert_history[j].face_name \in UnknownAliases
         /\ Fired(i)
         /\ alert_history[j].timestamp - alert_history[i].timestamp
               < alert_cooldown )
       => alert_history[j].is_cooldown

\* C8: the sound a real alert plays is unknown_alert_sound for every
\* spelling of "unrecognized" and alert_sound for any other name.
C8_SoundSelection ==
    \A t \in Threads :
       pc[t] = "notify" =>
          \A k \in 1..Len(io[t]) :
             io[t][k].op = "sound" =>
                io[t][k].arg = IF loc[t].face_name \in UnknownAliases
                               THEN "unknown_alert_sound"
                               ELSE "alert_sound"

\* C9: the label of the screenshot file name is "unknown" for None and for
\* every spelling of "unrecognized"; for any other name it is the name with
\* each non-alphanumeric character replaced by "_" ("A/B*C" gives "A_B_C"),
\* and "unknown" when that is empty.
C9_ScreenshotLabel ==
    shot_out # None =>
       LET label == shot_out[1].file.label
       IN /\ (shot_in = None \/ shot_in[1] \in UnknownAliases)
             => label = S_unknown
          /\ (shot_in # None /\ shot_in[1] \notin UnknownAliases
                /\ shot_in[1] # <<>>)
             => /\ Len(label) = Len(shot_in[1])
                /\ \A i \in 1..Len(label) :
                      label[i] = IF shot_in[1][i] \in AlnumChars
                                 THEN shot_in[1][i] ELSE "_"
          /\ shot_in = Some(S_ABC) => label = <<"A", "_", "B", "_", "C">>
          /\ shot_in = Some(<<>>) => label = S_unknown

\* C9 witness: the file named for "A/B*C" has the label "A_B_C".
C9_Witness ==
    /\ shot_in = Some(S_ABC)
    /\ shot_out # None
    /\ shot_out[1].file.label = <<"A", "_", "B", "_", "C">>

\* The current invocation of caller t had its screenshot write fail.
ImwriteFailed(t) ==
    \E k \in 1..Len(io[t]) : io[t][k].op = "imwrite" /\ io[t][k].arg # "ok"

HasIO(t, op) == \E k \in 1..Len(io[t]) : io[t][k].op = op

\* C10: after a failed screenshot write the invocation goes on as a real
\* alert: the path is None and the key is stamped with now, the event
\* recorded and returned is not a cooldown event and has no screenshot
\* path, the sound is played when sound is enabled and send_alert is called
\* when a Telegram manager is configured; an exception can leave the
\* invocation only from that send_alert call.
C10_ScreenshotFailure ==
    \A t \in Threads :
       ImwriteFailed(t) =>
          /\ pc[t] \in {"event", "sound", "notify", "idle"}
          /\ pc[t] \in {"event", "sound", "notify"} =>
                /\ loc[t].screenshot_path = None
                /\ last_alert_time[loc[t].key] = loc[t].now
          /\ pc[t] \in {"sound", "notify"} =>
                /\ loc[t].event # None
                /\ ~loc[t].event[1].is_cooldown
                /\ loc[t].event[1].screenshot_path = None
                /\ alert_history # <<>>
                /\ alert_history[Len(alert_history)] = loc[t].event[1]
          /\ (pc[t] = "notify" /\ alert_enabled) => HasIO(t, "sound")
          /\ pc[t] = "idle" =>
                /\ telegram => io[t][Len(io[t])].op = "send_alert"
                /\ ret[t].status \in {"returned", "raised"}
                /\ ret[t].status = "raised" => telegram
                /\ ret[t].status = "returned" =>
                      /\ ~ret[t].event[1].is_cooldown
                      /\ ret[t].event[1].screenshot_path = None

\* C10 witness: a real alert whose screenshot write failed has returned its
\* event, after playing the sound and calling send_alert.
C10_Witness ==
    \E t \in Threads :
       /\ ImwriteFailed(t)
       /\ pc[t] = "idle"
       /\ ret[t].status = "returned"
       /\ ~ret[t].event[1].is_cooldown
       /\ ret[t].event[1].screenshot_path = None
       /\ HasIO(t, "sound")
       /\ HasIO(t, "send_alert")
       /\ last_alert_time[EventKey(ret[t].event[1])] = ret[t].event[1].timestamp

----------------------------------------------------------------------------
(* Properties of CameraManager *)

\* C11: publishing never blocks the capture worker: no worker's put() is
\* ever executed against a full queue, so no worker waits inside put().
C11_PutNeverBlocks ==
    \A w \in DOMAIN workers : workers[w].pc # "putwait"

\* A worker of camera c is between the full() test and the end of put().
Publishing(c) ==
    \E w \in DOMAIN workers :
       workers[w].cam = c /\ workers[w].pc \in {"getnw", "put", "putwait"}

\* C12: drop-oldest.  get_frame never returns a frame older than the last
\* one published: a returned frame is the last of the frames put in the
\* queue since the previous get_frame (after f1 then f2, only f2), the call
\* leaves the queue empty, and a get_frame with no publish since the
\* previous one returns None.  When frames were published and no worker is
\* in the middle of publishing another, get_frame returns the last of them.
C12_DropOldest ==
    [][\A c \in CamIds :
          GetFrame(c) =>
             LET r == lastget'[1] IN
             /\ r.cam = c /\ r.since = pub[c]
             /\ r.frame # None =>
                   /\ pub[c] # <<>>
                   /\ r.frame[1] = pub[c][Len(pub[c])]
             /\ pub[c] = <<>> => r.frame = None
             /\ (pub[c] # <<>> /\ ~ Publishing(c)) =>
                   r.frame = Some(pub[c][Len(pub[c])])
             /\ c \in DOMAIN frame_queues => queues'[frame_queues[c]] = <<>>
             /\ pub'[c] = <<>>]_vars

\* C12 witness: f1 and then f2 were published with no get_frame in between,
\* and get_frame has returned f2 and left the queue empty.
C12_Witness ==
    /\ lastget # None
    /\ Len(lastget[1].since) = 2
    /\ lastget[1].frame = Some(lastget[1].since[2])
    /\ lastget[1].since[1] # lastget[1].since[2]
    /\ lastget[1].cam \in DOMAIN frame_queues
    /\ queues[frame_queues[lastget[1].cam]] = <<>>
    /\ pub[lastget[1].cam] = <<>>

\* C13: capture workers are independent.  Outside stop_all_cameras, the
\* registered worker of a camera that opened its source is still running:
\* stopping or restarting another camera does not end it.
C13_WorkersIndependent ==
    mgr.op # "stop_all" =>
       \A c \in DOMAIN capture_threads :
          workers[capture_threads[c]].opened => Alive(capture_threads[c])

\* The capture threads stop_all_cameras joins.
Registered(w) == \E c \in DOMAIN capture_threads : capture_threads[c] = w

\* C14: global stop liveness.  Once stop_all_cameras has set the stop
\* signal, every capture worker that was running then eventually leaves its
\* loop and releases its capture, whatever the manager is asked afterwards.
C14_StopAllTerminates ==
    \A w \in 1..MaxThreads :
       (mgr.pc = "st_join" /\ Registered(w) /\ Alive(w))
          ~> (/\ w \in DOMAIN workers
              /\ ~ Alive(w)
              /\ workers[w].cap = "released")

\* Worker w is inside the while loop of _capture_frames.
InLoop(w) ==
    workers[w].pc \in {"loop", "read", "sleep", "full", "getnw", "put",
                       "putwait"}

\* C15: a failed read never terminates the capture worker.  A read that
\* fails leaves the worker in its loop, sleeping before the next attempt;
\* after the sleep it tests the stop signal and reads again.  A worker inside
\* its loop ends only at the loop test with the stop signal set, or on the
\* lookup of a queue the manager has removed, never on a read.  A frame read
\* successfully is the frame the worker publishes.  Every worker that sleeps
\* after a failure gets back to reading unless the stop signal ends it.
C15_ReadFailureNotFatal ==
    /\ [][\A w \in DOMAIN workers :
            /\ (workers[w].pc = "read" /\ workers'[w].pc # "read") =>
                  \/ workers'[w].ret /\ workers'[w].pc = "full"
                                     /\ workers'[w].frame # None
                  \/ ~ workers'[w].ret /\ workers'[w].pc = "sleep"
            /\ (workers[w].pc = "sleep" /\ workers'[w].pc # "sleep") =>
                  workers'[w].pc = "loop"
            /\ (workers[w].pc = "loop" /\ workers'[w].pc # "loop") =>
                  IF stop_event THEN workers'[w].pc = "done"
                  ELSE workers'[w].pc = "read"
            /\ (InLoop(w) /\ workers'[w].pc = "done") =>
                  \/ workers[w].pc = "loop" /\ stop_event
                  \/ /\ workers[w].pc \in {"full", "getnw", "put"}
                     /\ workers[w].cam \notin DOMAIN frame_queues
            /\ (workers[w].pc \in {"put", "putwait"}
                  /\ workers'[w].pc = "loop") =>
                  queues'[IF workers[w].pc = "put"
                          THEN frame_queues[workers[w].cam]
                          ELSE workers[w].wq]
                     = <<workers[w].frame[1]>>]_vars
    /\ \A w \in 1..MaxThreads :
          (w \in DOMAIN workers /\ workers[w].pc = "sleep")
             ~> (w \in DOMAIN workers /\ workers[w].pc \in {"read", "done"})

\* C15 witness: a worker that read a frame and whose last read then failed
\* is in its loop, about to read again, and the source can still deliver.
C15_Witness ==
    \E w \in DOMAIN workers :
       /\ workers[w].pc = "read"
       /\ ~ workers[w].ret
       /\ workers[w].opened
       /\ workers[w].pos > 0
       /\ cameras[workers[w].cam].source = "device"
       /\ captured < MaxFrames
       /\ ~ stop_event

\* C16: loop playback.  When the read of a worker of a file-backed camera
\* has failed at end of file, its next read succeeds (the worker has gone
\* back to the start of the file).
C16_LoopPlayback ==
    [][\A w \in DOMAIN workers :
          (/\ cameras[workers[w].cam].source = "file"
           /\ workers[w].pc = "read"
           /\ workers'[w].pc # "read"
           /\ ~ workers[w].ret
           /\ workers[w].pos = FileLen)
          => workers'[w].ret]_vars

\* C17: a capture open failure is not fatal to the camera's worker: a worker
\* whose source could not be opened is still running, to retry the open.
C17_OpenFailureNotFatal ==
    \A w \in DOMAIN workers :
       (workers[w].cap # "none" /\ ~ workers[w].opened) => Alive(w)

----------------------------------------------------------------------------
(* Properties of TelegramManager.send_alert *)

RateLimited(c) == c.effects = <<"rate_limited">>

\* The texts of the calls that ended in a delivery, in call order.
RECURSIVE DeliveredTexts(_)
DeliveredTexts(calls) ==
    IF calls = <<>> THEN <<>>
    ELSE LET c == calls[Len(calls)]
             before == DeliveredTexts(SubSeq(calls, 1, Len(calls) - 1))
         IN IF Delivered(c) THEN Append(before, c.message) ELSE before

\* C18: rate limit.  A send_alert call made when now - last_sent is below
\* min_interval makes no delivery attempt, leaves last_sent unchanged and
\* writes nothing to failed_alerts.log (nor moves an image, nor raises); the
\* channel only ever receives the texts of the calls that were delivered, so
\* a dropped text is not sent by any later call.
C18_RateLimitDrops ==
    /\ [](/\ tg_sent = DeliveredTexts(tg_calls)
          /\ \A i \in DOMAIN tg_calls :
                RateLimited(tg_calls[i]) =>
                   \A j \in DOMAIN tg_sent : tg_sent[j] # tg_calls[i].message)
    /\ [][tg_calls' # tg_calls =>
            LET c == tg_calls'[Len(tg_calls')] IN
            /\ c.now = clock
            /\ (clock - tg_last_sent < min_interval) =>
                  /\ c.effects \in {<<"rate_limited">>, <<"init_failed">>}
                  /\ tg_sent' = tg_sent
                  /\ tg_last_sent' = tg_last_sent
                  /\ failed_log' = failed_log
                  /\ files' = files
                  /\ ~ c.raised
            /\ RateLimited(c) => clock - tg_last_sent < min_interval]_vars

\* C18 witness: after a delivery, a call inside the interval was dropped, and
\* a later call was delivered: the channel holds the two delivered texts only.
C18_Witness ==
    /\ Len(tg_calls) = 3
    /\ Delivered(tg_calls[1])
    /\ RateLimited(tg_calls[2])
    /\ tg_calls[2].now - tg_calls[1].now < min_interval
    /\ Delivered(tg_calls[3])
    /\ tg_sent = <<tg_calls[1].message, tg_calls[3].message>>
    /\ failed_log = <<>>
    /\ tg_last_sent = tg_calls[3].now

\* A call during which nothing failed: the bot started and the send worked.
NoFailure(c) ==
    \A k \in DOMAIN c.effects : c.effects[k] \notin {"failed", "init_failed"}

\* C19: rate-limit scenario.  The first send_alert of a fresh manager is
\* attempted whatever the clock reads, and with min_interval = 5 and a
\* working channel the calls at clock 0, 2 and 6 are delivered, dropped,
\* delivered.
C19_RateLimitScenario ==
    /\ (tg_calls # <<>> /\ NoFailure(tg_calls[1])) => Delivered(tg_calls[1])
    /\ (/\ Len(tg_calls) = 3
        /\ tg_calls[1].now = 0 /\ tg_calls[2].now = 2 /\ tg_calls[3].now = 6
        /\ \A i \in 1..3 : NoFailure(tg_calls[i])) =>
          /\ Delivered(tg_calls[1])
          /\ RateLimited(tg_calls[2])
          /\ Delivered(tg_calls[3])

\* A call whose delivery attempt failed: the bot could not be started, or
\* the send raised.
AttemptFailed(c) ==
    \E k \in DOMAIN c.effects : c.effects[k] \in {"failed", "init_failed"}

\* C20: fallback on failure.  For every call whose delivery attempt failed,
\* failed_alerts.log holds exactly one line with the text of that call.
C20_FallbackOnFailure ==
    \A i \in DOMAIN tg_calls :
       AttemptFailed(tg_calls[i]) =>
          Cardinality({j \in DOMAIN failed_log :
                          failed_log[j].message = tg_calls[i].message}) = 1

----------------------------------------------------------------------------
(* Properties of the notification path of trigger_alert *)

\* C21: notification failures stay inside send_alert.  No invocation of
\* trigger_alert ends by raising: whatever fails while the bot is started,
\* the text or photo is sent, failed_alerts.log is written or the image is
\* moved, the caller gets its AlertEvent back.
C21_NotifyNeverRaises ==
    \A t \in Threads : ret[t].status # "raised"

----------------------------------------------------------------------------
(* Properties of FaceDetector *)

\* The similarities of an embedding to the entries of a gallery, and the
\* largest of them.
SimsOf(gallery, e) ==
    {CosineSimilarity(gallery[i].embedding, e) : i \in DOMAIN gallery}
MaxSim(gallery, e) ==
    CHOOSE m \in SimsOf(gallery, e) : \A x \in SimsOf(gallery, e) : x <= m

\* The results of the last call that come from a comparison: the gallery
\* was not empty and the face has an embedding.
Compared(k) ==
    /\ rec # None
    /\ rec[1].gallery # <<>>
    /\ k \in DOMAIN rec[1].faces
    /\ rec[1].faces[k].embedding # None

\* C22: strict threshold, similarity always reported.  With a non-empty
\* gallery, a face is reported with a gallery entry exactly when its largest
\* similarity is greater than recognition_threshold (equal is not enough),
\* the entry reported has that similarity, and the similarity reported is
\* the largest one whether or not the face matched.
C22_StrictThreshold ==
    rec # None =>
       /\ DOMAIN rec[1].results = DOMAIN rec[1].faces
       /\ \A k \in DOMAIN rec[1].faces : Compared(k) =>
             LET r == rec[1].results[k]
                 e == rec[1].faces[k].embedding[1]
                 m == MaxSim(rec[1].gallery, e)
             IN /\ r.face = rec[1].faces[k]
                /\ r.similarity = m
                /\ (r.known # None) <=> (m > rec[1].threshold)
                /\ r.known # None =>
                      /\ \E i \in DOMAIN rec[1].gallery :
                            r.known[1] = rec[1].gallery[i]
                      /\ CosineSimilarity(r.known[1].embedding, e) = m

\* C22 witness: one call reported a face whose largest similarity equals the
\* threshold as unmatched with that similarity, and another face as matched.
C22_Witness ==
    /\ rec # None
    /\ \E k \in DOMAIN rec[1].faces :
          /\ Compared(k)
          /\ rec[1].results[k].known = None
          /\ rec[1].results[k].similarity = rec[1].threshold
    /\ \E k \in DOMAIN rec[1].faces :
          /\ Compared(k)
          /\ rec[1].results[k].known # None
          /\ rec[1].results[k].similarity > rec[1].threshold

\* The gallery positions whose similarity to e is the largest.
Best(gallery, e) ==
    {i \in DOMAIN gallery :
        CosineSimilarity(gallery[i].embedding, e) = MaxSim(gallery, e)}

\* C23: ties.  When several gallery entries share the largest similarity,
\* the entry reported for a matched face is the one that comes first in the
\* gallery.
C23_FirstOfTies ==
    \A k \in 1..MaxFaces :
       (Compared(k) /\ rec[1].results[k].known # None) =>
          LET best == Best(rec[1].gallery, rec[1].faces[k].embedding[1])
              first == CHOOSE i \in best : \A j \in best : i <= j
          IN rec[1].results[k].known[1] = rec[1].gallery[first]

\* C23 witness: two different entries tie for a face and the first one was
\* reported.
C23_Witness ==
    \E k \in 1..MaxFaces :
       /\ Compared(k)
       /\ rec[1].results[k].known # None
       /\ LET best == Best(rec[1].gallery, rec[1].faces[k].embedding[1])
          IN /\ Cardinality(best) > 1
             /\ \E i \in best, j \in best :
                   /\ i < j
                   /\ rec[1].gallery[i] # rec[1].gallery[j]
                   /\ rec[1].results[k].known[1] = rec[1].gallery[i]

\* C24: empty gallery.  A call made with an empty gallery returns one result
\* per face, in order, each with no identity and similarity 0.
C24_EmptyGallery ==
    (rec # None /\ rec[1].gallery = <<>>) =>
       /\ Len(rec[1].results) = Len(rec[1].faces)
       /\ \A k \in DOMAIN rec[1].faces :
             /\ rec[1].results[k].face = rec[1].faces[k]
             /\ rec[1].results[k].known = None
             /\ rec[1].results[k].similarity = 0

\* C24 witness: a call with two faces on an empty gallery.
C24_Witness ==
    /\ rec # None
    /\ rec[1].gallery = <<>>
    /\ Len(rec[1].faces) = 2
    /\ Len(rec[1].results) = 2
    /\ \E k \in 1..2 : rec[1].faces[k].embedding # None

\* C25: detector failure.  Every detect_faces call returns; a call in which
\* the model or the handling of one of its faces raised returns the empty
\* list, and a call in which nothing raised returns one Face per detected
\* face, in order, whatever happened in the calls before it.
C25_DetectFailureContained ==
    \A i \in DOMAIN det_calls :
       LET c == det_calls[i]
       IN /\ c.status = "returned"
          /\ c.fail # None => c.faces = <<>>
          /\ c.fail = None =>
                /\ Len(c.faces) = Len(c.image)
                /\ \A k \in DOMAIN c.image :
                      /\ c.faces[k].embedding = c.image[k].embedding
                      /\ c.faces[k].age = Some(c.image[k].age)
                      /\ c.faces[k].gender =
                            Some(IF c.image[k].sex = 1 THEN "Female"
                                 ELSE "Male")

\* C25 witness: the detector failed on the second face of a frame, the call
\* returned nothing, and the next frame's two faces were returned.
C25_Witness ==
    /\ Len(det_calls) = 2
    /\ Len(det_calls[1].image) = 2
    /\ det_calls[1].fail = Some(2)
    /\ det_calls[1].faces = <<>>
    /\ det_calls[2].fail = None
    /\ Len(det_calls[2].faces) = 2

\* The gallery the running (or last) load_known_faces call is to produce
\* from the directory it was given; the previous one if there is none.
NewGallery ==
    IF loader.dir = None THEN loader.old ELSE GalleryOf(loader.dir[1])

\* A reload: load_known_faces runs on a detector that has a gallery in use.
Reloading == loader.pc # "idle" /\ loader.old # <<>>

\* C26: atomic swap.  While load_known_faces runs, self.known_faces is the
\* complete gallery of before the call or the complete new one, never an
\* empty or partly filled list, and so is the gallery every recognize_faces
\* call made during the reload works on.
C26_AtomicSwap ==
    /\ [](Reloading => known_faces \in {loader.old, NewGallery})
    /\ [][(rec' # rec /\ Reloading) =>
             rec'[1].gallery \in {loader.old, NewGallery}]_vars

\* C27: failed reload.  After a load_known_faces call that failed (the
\* directory does not exist, or listing it raised), the gallery is the one
\* that was in use before the call.
C27_FailedReloadKeepsGallery ==
    (loader.pc = "idle" /\ loader.failed) => known_faces = loader.old

----------------------------------------------------------------------------
(* Properties of alert_history and of the rate-limit clock *)

\* C28: one event per invocation.  alert_history only grows, by one event
\* at a time, unless clear_alerts empties it; and every invocation of
\* trigger_alert that has ended, fired or suppressed, has added exactly one
\* event and returned that event.
C28_OneEventPerCall ==
    /\ [](AllIdle =>
            /\ Len(alert_history) = ncalls
            /\ \A t \in SeqThreads : ncalls > 0 =>
                  ret[t] = Returned(alert_history[Len(alert_history)]))
    /\ [][alert_history' # alert_history =>
            \/ alert_history' = <<>>
            \/ /\ Len(alert_history') = Len(alert_history) + 1
               /\ SubSeq(alert_history', 1, Len(alert_history))
                     = alert_history]_vars

\* A worker has read a frame and is on its way to put it in the queue.
HoldsFrame(w) == workers[w].pc \in {"full", "getnw", "put", "putwait"}

\* C29: one live worker per camera.  Whatever start_camera, stop_camera,
\* start_all_cameras and stop_all_cameras calls were made, no two capture
\* threads are inside the capture loop of the same camera, so no two of them
\* publish frames for one camera id.
C29_OneWorkerPerCamera ==
    \A w1 \in DOMAIN workers, w2 \in DOMAIN workers :
       (/\ w1 # w2
        /\ workers[w1].cam = workers[w2].cam
        /\ InLoop(w1) /\ InLoop(w2)) =>
          ~(HoldsFrame(w1) /\ HoldsFrame(w2))

\* The clock reading at the start of the last call that was delivered, 0
\* (the initial last_sent) when none was.
RECURSIVE LastDeliveredAt(_)
LastDeliveredAt(calls) ==
    IF calls = <<>> THEN 0
    ELSE IF Delivered(calls[Len(calls)]) THEN calls[Len(calls)].now
    ELSE LastDeliveredAt(SubSeq(calls, 1, Len(calls) - 1))

\* C30: last_sent.  A delivered send sets last_sent to the clock reading
\* taken at the start of that send, however long the send took; a call
\* whose delivery attempt failed leaves last_sent as it was, so last_sent is
\* always the start of the last delivered send and a failure takes nothing
\* from the interval of the next call.
C30_LastSentOnSuccessOnly ==
    /\ [](tg_last_sent = LastDeliveredAt(tg_calls))
    /\ [][tg_calls' # tg_calls =>
            LET c == tg_calls'[Len(tg_calls')]
            IN /\ Delivered(c) => tg_last_sent' = clock
               /\ AttemptFailed(c) => tg_last_sent' = tg_last_sent
               /\ RateLimited(c) <=>
                     (/\ NoFailure(c)
                      /\ clock - LastDeliveredAt(tg_calls) < min_interval)
           ]_vars

\* C30 witness: a send that took time was delivered, the channel refused the
\* next one, and a third call made less than min_interval after the refused
\* one was delivered.
C30_Witness ==
    /\ Len(tg_calls) = 3
    /\ Delivered(tg_calls[1])
    /\ tg_calls[1].done > tg_calls[1].now
    /\ tg_calls[2].effects = <<"send_message", "failed">>
    /\ tg_calls[2].now >= tg_calls[1].now + min_interval
    /\ Delivered(tg_calls[3])
    /\ tg_calls[3].now - tg_calls[2].now < min_interval
    /\ tg_last_sent = tg_calls[3].now

----------------------------------------------------------------------------
(* Properties of the fallback of send_alert *)

\* C31: fallback image.  A send_alert call that was given the path of an
\* image on disk and whose delivery attempt failed does not raise, and
\* unless the move itself failed the image is gone from its path and is in
\* failed_alert_images under a name made from the time.
C31_FailedImageMoved ==
    [][tg_calls' # tg_calls =>
         LET c == tg_calls'[Len(tg_calls')]
         IN (/\ AttemptFailed(c)
             /\ c.image_path # None
             /\ c.image_path[1] \in files) =>
               /\ ~ c.raised
               /\ \/ c.effects[Len(c.effects)] = "move_failed"
                  \/ /\ c.image_path[1] \notin files'
                     /\ BackupFile(c.now) \in files']_vars

(* Properties of the cooldown table *)

\* (camera id, name) pairs whose keys would collide if the separator or the
\* camera id were not part of the key
KeyPairs ==
    CallInputs \cup {<<1, <<"1", "_", "A">>>>, <<11, <<"_", "A">>>>,
                     <<11, <<"A">>>>, <<1, <<"1", "A">>>>,
                     <<0 - 1, S_Alice>>, <<1, <<"_">> \o S_Alice>>}

PairOf(x) == <<x.camera_id, x.face_name>>

\* Distinct (camera id, name) pairs have distinct keys.
KeyInjective ==
    \A p, q \in KeyPairs : p # q => Key(p[1], p[2]) # Key(q[1], q[2])

\* C32: the key is injective over (camera id, name) pairs; a call stamps the
\* entry of its own pair only and leaves the entry of every other pair as it
\* was; and a detection is recorded as suppressed only when its own pair has
\* a real alert inside the window (or no entry at all, read as time 0).
C32_KeysIndependent ==
    /\ []KeyInjective
    /\ [][last_alert_time' # last_alert_time =>
            \E t \in SeqThreads :
               /\ pc[t] = "stamp"
               /\ \A p \in CallInputs :
                     p # PairOf(loc[t]) =>
                        /\ (Key(p[1], p[2]) \in DOMAIN last_alert_time')
                              = (Key(p[1], p[2]) \in DOMAIN last_alert_time)
                        /\ LookupLast(last_alert_time', Key(p[1], p[2]))
                              = LookupLast(last_alert_time, Key(p[1], p[2]))]_vars
    /\ [][( /\ Len(alert_history') = Len(alert_history) + 1
            /\ Len(alert_history) = ncalls - 1
            /\ alert_history'[Len(alert_history')].is_cooldown ) =>
            LET e == alert_history'[Len(alert_history')]
                own == {i \in Events : /\ Fired(i)
                                       /\ PairOf(alert_history[i]) = PairOf(e)}
            IN IF own = {}
               THEN e.timestamp < alert_cooldown
               ELSE \E i \in own :
                       e.timestamp - alert_history[i].timestamp
                          < alert_cooldown]_vars

\* C32 witness: camera 1 raised a real alert for a name and, inside the
\* window of that alert, camera 2 raised a real alert for the same name; each
\* pair has its own entry.
C32_Witness ==
    /\ AllIdle
    /\ Len(alert_history) = 2
    /\ Fired(1) /\ Fired(2)
    /\ alert_history[1].camera_id # alert_history[2].camera_id
    /\ alert_history[1].face_name = alert_history[2].face_name
    /\ alert_history[2].timestamp - alert_history[1].timestamp < alert_cooldown
    /\ alert_history[2].timestamp # alert_history[1].timestamp
    /\ \A i \in Events :
          LookupLast(last_alert_time, EventKey(alert_history[i]))
             = alert_history[i].timestamp

\* C33: the cooldown table is written only by the fire path of trigger_alert:
\* every step keeps every entry and never lowers one, a step that changes the
\* table is the stamp of a call that is not in cooldown, a real alert is
\* recorded with the entry of its key equal to its timestamp, a suppressed one
\* leaves the table as it was, and between calls every entry equals the
\* timestamp of the most recent real alert of its key.
C33_TableMonotone ==
    /\ [][/\ DOMAIN last_alert_time \subseteq DOMAIN last_alert_time'
          /\ \A k \in DOMAIN last_alert_time :
                last_alert_time'[k] >= last_alert_time[k]
          /\ last_alert_time' # last_alert_time =>
                \E t \in Threads :
                   /\ pc[t] = "stamp"
                   /\ ~ loc[t].in_cooldown
                   /\ pc'[t] = "screenshot"]_vars
    /\ [][Len(alert_history') = Len(alert_history) + 1 =>
            LET e == alert_history'[Len(alert_history')]
            IN IF e.is_cooldown
               THEN last_alert_time' = last_alert_time
               ELSE /\ EventKey(e) \in DOMAIN last_alert_time'
                    /\ last_alert_time'[EventKey(e)] = e.timestamp]_vars
    /\ []((AllIdle /\ Len(alert_history) = ncalls) =>
            \A k \in DOMAIN last_alert_time :
               \E i \in Events :
                  /\ LastFired(i)
                  /\ EventKey(alert_history[i]) = k
                  /\ alert_history[i].timestamp = last_alert_time[k])

\* C33 witness: two keys fired one after the other and nothing was cleared;
\* the table holds both entries, each at the timestamp of its real alert.
C33_Witness ==
    /\ AllIdle
    /\ Len(alert_history) = 2
    /\ ncalls = 2
    /\ Fired(1) /\ Fired(2)
    /\ alert_history[1].timestamp < alert_history[2].timestamp
    /\ EventKey(alert_history[1]) # EventKey(alert_history[2])
    /\ DOMAIN last_alert_time
          = {EventKey(alert_history[1]), EventKey(alert_history[2])}
    /\ last_alert_time[EventKey(alert_history[1])] = alert_history[1].timestamp
    /\ last_alert_time[EventKey(alert_history[2])] = alert_history[2].timestamp

----------------------------------------------------------------------------
(* FaceDetector.add_known_face and the gallery it shares with *)
(* load_known_faces *)

MaxGallery == 2    \* entries of known_faces, and files of the directory

\* Names typed into the dialog
AddNames == {"alice", "bob"}

F_alice_png == FaceFile("alice", ".png", "face", <<4, 3>>)

\* Directory states of this part; one holds a stem under two extensions.
GalleryDirs ==
    {None, Some(<<>>), Some(<<F_alice>>), Some(<<F_alice, F_alice_png>>)}

\* Images handed to add_known_face: without a face, with one, with two
AddImages ==
    {<<>>,
     <<[embedding |-> Some(<<4, 3>>), age |-> 25, sex |-> 1]>>,
     <<[embedding |-> Some(<<3, 4>>), age |-> 30, sex |-> 0],
       [embedding |-> Some(<<4, 3>>), age |-> 25, sex |-> 1]>>}

\* f"{name}_{timestamp}": timestamp = int(time.time())
SavedStem(name, timestamp) ==
    CASE name = "alice" /\ timestamp = 0 -> "alice_0"
      [] name = "bob" /\ timestamp = 0 -> "bob_0"

\* cv2.imwrite(str(face_path), image): the file is created, or replaced when
\* the path exists; save_dir.mkdir(parents=True, exist_ok=True) ran before
WriteFace(dir, f) ==
    LET fs == IF dir = None THEN <<>> ELSE dir[1]
        same(g) == g.stem = f.stem /\ g.suffix = f.suffix
    IN IF \E k \in DOMAIN fs : same(fs[k])
       THEN Some([k \in DOMAIN fs |-> IF same(fs[k]) THEN f ELSE fs[k]])
       ELSE Some(Append(fs, f))

\* How a call may go: mkdir raises, or detect_faces runs (with its own
\* fail point) and imwrite writes the file or returns False.
AddOutcomes(image) ==
    {[mkdir |-> "raises", fail |-> None, imwrite |-> "ok"]}
    \cup {[mkdir |-> "ok", fail |-> f, imwrite |-> w] :
             f \in FailPoints(image), w \in {"ok", "failed"}}

\* self.known_faces.append(KnownFace(name=name, embedding=face.embedding,
\*                                   image_path=str(face_path)))
AddedFace(gallery, name, face, path) ==
    Append(gallery, [name |-> name, embedding |-> face.embedding[1],
                     image_path |-> path])

\* add_known_face(image, name, save_dir): the directory and the gallery
\* after the call, and the value returned
AddKnownFaceResult(gallery, dir, image, name, now, o) ==
    IF o.mkdir = "raises"
    THEN [known_faces |-> gallery, face_dir |-> dir, ok |-> FALSE]
    ELSE LET faces == DetectFaces(image, o.fail).faces
             made == IF dir = None THEN Some(<<>>) ELSE dir
             stem == SavedStem(name, now)
         IN IF faces = <<>>
            THEN [known_faces |-> gallery, face_dir |-> made, ok |-> FALSE]
            ELSE [known_faces |->
                     AddedFace(gallery, name, faces[1], <<stem, ".jpg">>),
                  face_dir |->
                     IF o.imwrite = "ok"
                     THEN WriteFace(made,
                            FaceFile(stem, ".jpg", "face",
                                     faces[1].embedding[1]))
                     ELSE made,
                  ok |-> TRUE]

AddKnownFace(image, name, o) ==
    /\ loader.pc = "idle"
    /\ Len(known_faces) < MaxGallery
    /\ (IF face_dir = None THEN 0 ELSE Len(face_dir[1])) < MaxGallery
    /\ LET r == AddKnownFaceResult(known_faces, face_dir, image, name,
                                   clock, o)
       IN /\ known_faces' = r.known_faces
          /\ face_dir' = r.face_dir
    /\ UNCHANGED <<recognition_threshold, loader, rec, det_calls, faceRest>>

NextGallery ==
    \/ LoadKnownFaces
    \/ LoadStep
    \/ \E d \in GalleryDirs : ChangeDir(d)
    \/ \E image \in AddImages : \E name \in AddNames :
          \E o \in AddOutcomes(image) : AddKnownFace(image, name, o)

SpecGallery == Init /\ [][NextGallery]_vars

\* C34: between calls the gallery never holds two entries with the same
\* name, whatever load_known_faces and add_known_face calls came before.
C34_UniqueNames ==
    loader.pc = "idle" =>
       \A i, j \in DOMAIN known_faces :
          i # j => known_faces[i].name # known_faces[j].name

----------------------------------------------------------------------------
(* Properties of get_frame and get_camera_status *)

\* Camera c has had one capture thread at most since the manager was made.
SingleWorker(c) ==
    \A w1, w2 \in DOMAIN workers :
       (workers[w1].cam = c /\ workers[w2].cam = c) => w1 = w2

\* C35: no queue ever holds more than one frame, and with a single worker for
\* a camera every frame get_frame returns is a frame that worker captured
\* for that camera, later in capture order than the frame the previous
\* get_frame of the camera returned: the frames returned are a subsequence
\* of the frames captured and none is returned twice.
C35_FramesInOrder ==
    /\ [](\A q \in DOMAIN queues : Len(queues[q]) <= queue_maxsize)
    /\ [][\A c \in CamIds :
            (GetFrame(c) /\ SingleWorker(c) /\ lastget'[1].frame # None) =>
               LET f == lastget'[1].frame[1] IN
               /\ f = Frame(c, f.seq)
               /\ f.seq \in 1..captured
               /\ ( /\ lastget # None
                    /\ lastget[1].cam = c
                    /\ lastget[1].frame # None ) =>
                       f.seq > lastget[1].frame[1].seq]_vars

\* C35 witness: the single worker of a camera captured two frames, the
\* consumer took the first, took the second with the next call, and the
\* queue is empty.
C35_Witness ==
    /\ lastget # None
    /\ SingleWorker(lastget[1].cam)
    /\ lastget[1].frame # None
    /\ lastget[1].frame[1].seq = 2
    /\ Len(lastget[1].since) = 1
    /\ captured = 2
    /\ lastget[1].cam \in DOMAIN frame_queues
    /\ queues[frame_queues[lastget[1].cam]] = <<>>
    /\ \E w \in DOMAIN workers :
          /\ workers[w].cam = lastget[1].cam
          /\ workers[w].pos = 2

\* get_camera_status(cam_id): {} for an id that is not configured, else
\* whether the id is a key of capture_threads, the size of its queue (0
\* without one) and the enabled flag of its configuration
GetCameraStatus(cam_id) ==
    IF cam_id \notin DOMAIN cameras THEN None
    ELSE Some([running |-> cam_id \in DOMAIN capture_threads,
               frame_queue_size |->
                  IF cam_id \in DOMAIN frame_queues
                  THEN Len(queues[frame_queues[cam_id]]) ELSE 0,
               enabled |-> cameras[cam_id].enabled])

\* C36: whenever get_camera_status reports running = True for a camera, the
\* capture thread registered for that camera is alive.
C36_RunningMeansAlive ==
    mgr.pc = "idle" =>
       \A c \in CamIds :
          GetCameraStatus(c)[1].running =>
             /\ c \in DOMAIN capture_threads
             /\ Alive(capture_threads[c])

\* C37: stop_all_cameras joins every registered worker, waiting for a worker
\* that does not exit no longer than the join timeout, ends without an
\* exception, and has logged a warning for every worker that was still alive
\* when its join returned.
C37_StragglersReported ==
    [][( /\ mgr.pc = "st_join"
         /\ mgr.todo # <<>>
         /\ mgr'.todo = Tail(mgr.todo)
         /\ Alive(Head(mgr.todo)) ) =>
            Head(mgr.todo) \in mgr'.warned]_vars

----------------------------------------------------------------------------
(* Properties of clear_alerts and get_recent_alerts *)

\* C38: clear_alerts empties alert_history and leaves the cooldown table as
\* it was, so the decision trigger_alert takes for any key at any later time
\* is the one it would have taken without the clear: a key that fired less
\* than alert_cooldown ago is still suppressed.
C38_ClearKeepsCooldown ==
    [][(alert_history # <<>> /\ alert_history' = <<>>) =>
          /\ last_alert_time' = last_alert_time
          /\ \A p \in CallInputs : \A now \in TimeValues :
                now >= clock =>
                   InCooldown(now, LookupLast(last_alert_time',
                                              Key(p[1], p[2])))
                      = InCooldown(now, LookupLast(last_alert_time,
                                                   Key(p[1], p[2])))]_vars

\* C38 witness: a key fired, the history was cleared, and the next detection
\* of the key, inside the window of the cleared alert, was suppressed.
C38_Witness ==
    /\ AllIdle
    /\ ncalls = 2
    /\ Len(alert_history) = 1
    /\ alert_history[1].is_cooldown
    /\ alert_history[1].timestamp >= alert_cooldown
    /\ EventKey(alert_history[1]) \in DOMAIN last_alert_time
    /\ last_alert_time[EventKey(alert_history[1])]
          < alert_history[1].timestamp
    /\ alert_history[1].timestamp
          - last_alert_time[EventKey(alert_history[1])] < alert_cooldown

MaxLimit == 2    \* largest limit passed to get_recent_alerts

\* sorted(history, key = timestamp, reverse = True) as positions of the
\* history: the sort is stable, events with equal timestamps keep the order
\* they were recorded in
RECURSIVE InsertDesc(_, _, _)
InsertDesc(history, s, i) ==
    IF s = <<>> THEN <<i>>
    ELSE IF history[Head(s)].timestamp >= history[i].timestamp
    THEN <<Head(s)>> \o InsertDesc(history, Tail(s), i)
    ELSE <<i>> \o s

\* Mutant of SortedDesc: the history is taken in the order it was recorded.
SortedDesc_Unsorted(history, n) == [k \in 1..n |-> k]

RECURSIVE SortedDesc(_, _)
SortedDesc(history, n) ==
    IF n = 0 THEN <<>>
    ELSE InsertDesc(history, SortedDesc(history, n - 1), n)

\* s[:limit]: the first limit elements, all but the last -limit for a
\* negative limit
SliceTo(s, limit) ==
    LET stop == IF limit >= 0 THEN limit ELSE Len(s) + limit
    IN IF stop <= 0 THEN <<>>
       ELSE IF stop >= Len(s) THEN s
       ELSE SubSeq(s, 1, stop)

\* get_recent_alerts(limit), as positions of alert_history and as events
RecentIdx(history, limit) ==
    SliceTo(SortedDesc(history, Len(history)), limit)
GetRecentAlerts(history, limit) ==
    LET idx == RecentIdx(history, limit)
    IN [k \in DOMAIN idx |-> history[idx[k]]]

Limits == 0..MaxLimit

\* C39: called between two trigger_alert calls (the alert panel runs on the
\* thread that makes them), get_recent_alerts(limit) returns at most limit
\* events of the history, each once, newest first; every event it leaves out
\* is no more recent than any it returns; real and suppressed alerts are
\* treated alike (with a limit that covers the history every event is
\* returned).
C39_RecentAlerts ==
    AllIdle =>
    \A limit \in Limits :
       LET idx == RecentIdx(alert_history, limit)
           r == [k \in DOMAIN idx |-> alert_history[idx[k]]]
           R == {idx[k] : k \in DOMAIN idx}
       IN /\ Len(r) <= limit
          /\ R \subseteq Events
          /\ Cardinality(R) = Len(r)
          /\ \A k \in 1..(Len(r) - 1) : r[k].timestamp >= r[k + 1].timestamp
          /\ \A i \in R : \A j \in Events \ R :
                alert_history[i].timestamp >= alert_history[j].timestamp
          /\ limit >= Len(alert_history) => R = Events

\* C39 witness: the history holds a real alert and a later suppressed one;
\* limit 1 returns the later one alone and limit 2 returns both, newest
\* first.
C39_Witness ==
    /\ AllIdle
    /\ Len(alert_history) = 2
    /\ Fired(1) /\ ~ Fired(2)
    /\ alert_history[1].timestamp < alert_history[2].timestamp
    /\ GetRecentAlerts(alert_history, 1) = <<alert_history[2]>>
    /\ GetRecentAlerts(alert_history, 2)
          = <<alert_history[2], alert_history[1]>>

====
